---- MODULE Spec2Model ----
(***************************************************************************)
(* Copy-trading bot: the poll loops (run_kalshi_copy.py, run_pm_copy.py),  *)
(* the Kalshi executor with its exposure ledger and trade log              *)
(* (kalshi_executor.py), the market matcher front end (market_matcher.py)  *)
(* the Polymarket executor (pm_executor.py) and the risk manager           *)
(* (risk_manager.py) with the trade callback of main.py.                   *)
(*                                                                         *)
(* Money is kept in integer cents (the code uses floats of dollars); a     *)
(* division is truncated to the cent.  Whale trade sizes are whole         *)
(* dollars.  A Python dict of amounts is a total function in which 0       *)
(* stands for "key absent" (the code reads every entry with .get(k, 0.0)). *)
(* A string the code splits or searches is kept as the sequence of its     *)
(* '-'-separated parts (slug) or as the features the code extracts from it *)
(* (title).                                                                *)
(***************************************************************************)
EXTENDS Integers, Sequences, FiniteSets, TLC

VARIABLES
    script,        \* which entry point runs: "run_kalshi_copy" | "run_pm_copy" | "api" | "modes"
    pc,            \* poll loop: "polling" | "crashed"
    seen_trades,   \* main(): seen_trades, the set of trade ids already surfaced
    ex,            \* the KalshiExecutor object (config.dry_run, ledger, whale window)
    trade_log,     \* the file TRADE_LOG: sequence of logged trade records
    now,           \* wall clock, minutes
    pm,            \* the PolymarketCopyExecutor object
    twin,          \* a second KalshiExecutor, in dry-run mode, with its own log
    handed,        \* observation: per trade id, times handed to the executor in this run
    refed,         \* observation: the trade ids the feed returned again, once seen, in this run
    failed,        \* observation: ids of the trades whose order the exchange refused in this run
    execEver,      \* observation: per raw trade (by hash), times executed so far, over all runs
    filled,        \* observation: what the exchange accepted, per side and as a count
    rm,            \* the RiskManager object (of main.py, or the executor's self.risk)
    risk_result,   \* the RiskCheckResult of the last check_position call, with its arguments
    kalshi_markets, \* MarketMatcher.kalshi_markets: the index the matcher was built with
    last_find,     \* the result of the last find_match call, with its argument
    analyzer,      \* a WhaleAnalyzer object, with every size it was given
    scaler,        \* the ScalerConfig of the sizing strategies (our_bankroll, trader_avg_bet)
    last_size,     \* the result of the last sizing call, with its argument
    last_parse,    \* the result of the last parse_pm_trade call, with its argument
    tasks,         \* the execute_copy_trade coroutines of the PM executor: where each is
    last_kelly,    \* the result of the last calculate_kelly call, with its arguments
    catalog,       \* what the exchange listed when the markets were last loaded
    last_trades,   \* TradeMonitor.last_trades: per wallet, its dict
    surfaced,      \* observation: per wallet and hash, times is_new_trade said True
    fetching,      \* run_pm_copy main(): error_count, with the observation waits: the
                   \* sleeps of the error handler, one per fetch of the current run
                   \* of failed fetches, and slept: the sleep that ended the last scan
    feed,          \* observation: per transaction hash, whether the feed returned it
                   \* and how often the filter of main() surfaced it as new
    last_batch,    \* the last process_whale_trades call: the executor before it, its
                   \* arguments and its results
    last_copy,     \* the last execute_copy_trade call of the PM executor awaited on
                   \* its own: the executor before it, the trade and the result
    last_order     \* the last order of the on_trade callback: what the exchange did, the
                   \* ExecutionResult, and whether trader exposure was added

\* the state of the executors and of the poll loops
core == <<script, pc, seen_trades, ex, trade_log, now, pm, twin,
          handed, refed, failed, execEver, filled>>

\* the state of the services the poll loops do not drive
aux == <<rm, risk_result, kalshi_markets, last_find>>

\* the state of the sizing strategies
sizing == <<analyzer, scaler, last_size>>

\* the state of the services called on their own
more == <<last_kelly, catalog, last_trades, surfaced, fetching, feed, last_batch, last_copy>>

\* the state the poll loops and the executors do not touch
ext == <<analyzer, scaler, last_size, last_order, last_parse, tasks, more>>

vars == <<script, pc, seen_trades, ex, trade_log, now, pm, twin,
          handed, refed, failed, execEver, filled, rm, risk_result,
          kalshi_markets, last_find, analyzer, scaler, last_size, last_order,
          last_parse, tasks, more>>

-----------------------------------------------------------------------------
(* Bounds of the model *)

\* longest list of raw trades one poll cycle or one process_whale_trades call gets
MaxBatch == 1
\* a trader's tracked exposure is followed up to this many basis points
MaxExposure == 2000
\* a matcher is built over at most this many Kalshi markets
MaxIndex == 2
\* the clock stops advancing after this many cooldown periods
MaxTicks == 1
\* the runs explored write at most this many records to the trade log
MaxLog == 2
\* sizes given to one WhaleAnalyzer
MaxAdded == 3

-----------------------------------------------------------------------------
(* Configuration: KalshiCopyConfig / PMCopyConfig, amounts in cents *)

\* account balance in dollars, loaded by KalshiCopyConfig.from_env
bankroll == 400
max_trade_percent == 5
\* dollars per market side
max_position_size_per_market == 27
\* dollars of total exposure (environment MAX_POSITION_SIZE_TOTAL)
max_position_size_total == 50
\* environment KALSHI_WHALE_AVG_WINDOW
whale_avg_window == 2
\* dollars (environment MIN_TRADE_SIZE, MAX_SINGLE_TRADE_SIZE)
min_trade_size == 1
max_single_trade_size == 25
\* _recently_traded(cooldown_minutes=30)
cooldown_minutes == 30
\* PMCopyConfig, dollars
pm_max_position_size == 50
pm_max_total_exposure == 300

Cents(dollars) == dollars * 100

Min(a, b) == IF a < b THEN a ELSE b

\* a failed parse or match (Python None)
None == [ok |-> FALSE]

\* an absent line (Python None) is the empty set, a line x (in hundredths) is {x}
NoLine == {}

-----------------------------------------------------------------------------
(* Strings *)

\* alphabetical order of the team codes the model uses ("" sorts first)
TeamOrder == <<"", "bos", "chi", "den", "lal", "mia", "nyk">>

Rank(t) == CHOOSE i \in 1..Len(TeamOrder) : TeamOrder[i] = t

\* str.endswith on a slug kept as its '-'-separated parts, for a suffix without '-'
EndsWith(slug, s) == s = "" \/ (Len(slug) > 0 /\ slug[Len(slug)] = s)

\* a or b or c ... over strings: the first non-empty one, else ""
RECURSIVE FirstNonEmpty(_)
FirstNonEmpty(xs) ==
    IF xs = <<>> THEN ""
    ELSE IF Head(xs) # "" THEN Head(xs) ELSE FirstNonEmpty(Tail(xs))

\* a or b or c ... over numbers: the first non-zero one, else 0
RECURSIVE FirstNonZero(_)
FirstNonZero(xs) ==
    IF xs = <<>> THEN 0
    ELSE IF Head(xs) # 0 THEN Head(xs) ELSE FirstNonZero(Tail(xs))

RECURSIVE SumSeq(_)
SumSeq(xs) == IF xs = <<>> THEN 0 ELSE Head(xs) + SumSeq(Tail(xs))

\* s[-n:] of a Python list: the last n elements (n = 0 keeps the whole list)
LastN(s, n) ==
    IF n = 0 \/ Len(s) <= n THEN s
    ELSE SubSeq(s, Len(s) - n + 1, Len(s))

-----------------------------------------------------------------------------
(* The origin feed: raw trade payloads (already in the nested-market form   *)
(* the Kalshi loop normalises them to)                                      *)

Title(sport_words, market_type, line) ==
    [sport_words |-> sport_words, market_type |-> market_type, line |-> line]

Raw(hash, cond, token, slug, title, outcome, size, amount) ==
    [transactionHash |-> hash, conditionId |-> cond, id |-> "",
     tokenId |-> token, clobTokenId |-> "", asset |-> "",
     slug |-> slug, title |-> title, outcome |-> outcome,
     size |-> size, usdcSize |-> 0, amount |-> amount]

SlugBosNyk == <<"nba", "bos", "nyk", "2026-02-01">>
SlugDenLal == <<"nba", "den", "lal", "2026-02-01">>
SlugElection == <<"election">>
WinnerTitle == Title({}, "winner", NoLine)

RawTrades ==
    { Raw("h1", "c1", "tk1", SlugBosNyk, WinnerTitle, "yes", 60, 0),
      Raw("h2", "c1", "tk1", SlugBosNyk, WinnerTitle, "yes", 100, 0),
      Raw("h3", "c1", "tk2", SlugBosNyk, WinnerTitle, "no", 60, 0),
      Raw("h4", "c2", "", SlugDenLal, WinnerTitle, "yes", 100, 0),
      \* a market with a token of its own
      Raw("h5", "c3", "tk3", SlugDenLal, WinnerTitle, "no", 100, 0),
      \* not a sports market, and no team codes in its slug
      Raw("h7", "c4", "", SlugElection, WinnerTitle, "yes", 100, 0),
      \* no conditionId, tokenId or asset: parse_pm_trade finds no token id
      Raw("h8", "", "", SlugBosNyk, WinnerTitle, "yes", 60, 0),
      \* no conditionId: the transaction hash is the trade id
      [Raw("h9", "", "", SlugBosNyk, WinnerTitle, "no", 100, 0) EXCEPT !.asset = "a9"],
      \* no id at all
      Raw("", "", "", SlugDenLal, WinnerTitle, "yes", 60, 0) }

\* all lists of at most MaxBatch trades drawn from a set of raw trades
Batches(trades) == UNION { [1..n -> trades] : n \in 0..MaxBatch }

-----------------------------------------------------------------------------
(* market_matcher.py: parsing *)

SportKeywords == {"nfl", "cfb", "nba", "cbb", "nhl", "mlb", "soccer", "ufc", "pga"}

\* _detect_sport: a SPORT_MAP keyword in the title or in the slug, else ""
DetectSport(title, slug) ==
    LET found == (title.sport_words \cup {slug[i] : i \in DOMAIN slug})
                 \cap SportKeywords
    IN IF found = {} THEN "" ELSE CHOOSE s \in found : TRUE

\* _normalize_team_code: a three-letter code is kept as it is
NormalizeTeamCode(team1, team2) == <<team1, team2>>

\* _extract_teams, winner and total titles: parts 1 and 2 of the slug,
\* else ("", "") when the title scan finds no pair of aliases
ExtractTeams(title, slug) ==
    IF Len(slug) >= 3 THEN NormalizeTeamCode(slug[2], slug[3])
    ELSE <<"", "">>

\* no parse_pm_trade call made yet
NoParse == [called |-> FALSE]

\* a parse_pm_trade call and what it returned
Parsed(trade_data, result) == [called |-> TRUE, trade_data |-> trade_data, result |-> result]

\* parse_pm_trade: None when there is no token id or no positive size
ParsePmTrade(t) ==
    LET token_id == FirstNonEmpty(<<t.tokenId, t.clobTokenId, t.conditionId, t.asset>>)
        size == FirstNonZero(<<t.size, t.usdcSize, t.amount>>)
    IN IF token_id = "" THEN None
       ELSE IF size <= 0 THEN None
       ELSE [ok |-> TRUE,
             market_id |-> t.conditionId,
             token_id |-> token_id,
             side |-> IF t.outcome = "yes" THEN "yes" ELSE "no",
             size |-> size,
             sport |-> DetectSport(t.title, t.slug),
             teams |-> ExtractTeams(t.title, t.slug),
             market_type |-> t.title.market_type,
             line |-> t.title.line]

-----------------------------------------------------------------------------
(* market_matcher.py: the index of Kalshi markets and find_match *)

\* _build_game_key: the two team codes, sorted, joined by '-'
BuildGameKey(team1, team2) ==
    IF Rank(team1) <= Rank(team2) THEN <<team1, team2>> ELSE <<team2, team1>>

\* a Kalshi market as _build_index files it: mentions = the team codes
\* _team_mentioned_in_title finds in its title, over = the title says over/o/u
KalshiMarket(id, sport, market_type, game_key, mentions, over, line) ==
    [id |-> id, sport |-> sport, market_type |-> market_type, game_key |-> game_key,
     mentions |-> mentions, over |-> over, line |-> line]

\* self.kalshi_markets, in index-insertion order
KalshiMarkets ==
    << KalshiMarket("KXNBAGAME-26FEB01BOSNYK", "nba", "winner", <<"bos", "nyk">>,
                    {"bos", "nyk"}, FALSE, NoLine),
       KalshiMarket("KXNBAGAME-26FEB01DENLAL", "nba", "winner", <<"den", "lal">>,
                    {"den", "lal"}, FALSE, NoLine) >>

GameKeys == {KalshiMarkets[i].game_key : i \in DOMAIN KalshiMarkets}
Sides == {"yes", "no"}
SideKeys == GameKeys \X Sides

Abs(x) == IF x < 0 THEN -x ELSE x

\* _team_mentioned_in_title, and "team in ks_title": the empty string is found
\* in every title
Mentioned(team, ks_market) == team = "" \/ team \in ks_market.mentions

\* _determine_kalshi_side: for winner and spread, ks_team is the first of the
\* two teams the title mentions, and "if not ks_team" refuses the empty one
DetermineKalshiSide(ks_market, pm_trade) ==
    IF pm_trade.market_type = "total"
    THEN IF ks_market.over
         THEN (IF pm_trade.side = "yes" THEN "yes" ELSE "no")
         ELSE ""
    ELSE LET ks_team == IF Mentioned(pm_trade.teams[1], ks_market) THEN pm_trade.teams[1]
                        ELSE IF Mentioned(pm_trade.teams[2], ks_market) THEN pm_trade.teams[2]
                        ELSE ""
         IN IF ks_team = "" THEN "" ELSE pm_trade.side

\* the filters of the loop body of _find_best_match: does this market qualify
Qualifies(ks_market, pm_trade) ==
    /\ ks_market.market_type = pm_trade.market_type
    /\ pm_trade.market_type = "spread" => Mentioned(pm_trade.teams[1], ks_market)
    /\ (pm_trade.market_type \in {"spread", "total"}
         /\ ks_market.line # NoLine /\ pm_trade.line # NoLine)
        => \A kl \in ks_market.line, pl \in pm_trade.line :
              Abs(kl - (IF pm_trade.market_type = "spread" THEN Abs(pl) ELSE pl)) <= 100
    /\ DetermineKalshiSide(ks_market, pm_trade) # ""

\* match_confidence in tenths: 1.0, plus 0.1 when the trade carries a line
MatchConfidence(pm_trade) ==
    10 + (IF pm_trade.market_type \in {"spread", "total"} /\ pm_trade.line # NoLine
          THEN 1 ELSE 0)

\* the MarketMatch built for a qualifying market
Match(ks_market, pm_trade) ==
    [ok |-> TRUE,
     kalshi_market_id |-> ks_market.id,
     kalshi_side |-> DetermineKalshiSide(ks_market, pm_trade),
     game_key |-> BuildGameKey(pm_trade.teams[1], pm_trade.teams[2]),
     confidence |-> Min(MatchConfidence(pm_trade), 10)]

\* the loop of _find_best_match from market i on: a market that is not
\* skipped replaces the best so far only with a strictly larger match_confidence
RECURSIVE BestMatchLoop(_, _, _, _, _)
BestMatchLoop(bucket, pm_trade, i, best_match, best_confidence) ==
    IF i > Len(bucket) THEN best_match
    ELSE IF Qualifies(bucket[i], pm_trade) /\ MatchConfidence(pm_trade) > best_confidence
         THEN BestMatchLoop(bucket, pm_trade, i + 1,
                            Match(bucket[i], pm_trade), MatchConfidence(pm_trade))
         ELSE BestMatchLoop(bucket, pm_trade, i + 1, best_match, best_confidence)

\* the loop with >= in place of >: the last of the equally confident markets
FindLastMatch(bucket, pm_trade) ==
    LET good == {i \in DOMAIN bucket : Qualifies(bucket[i], pm_trade)}
    IN IF good = {} THEN None
       ELSE Match(bucket[CHOOSE j \in good : \A k \in good : j >= k], pm_trade)

\* _find_best_match: best_match = None, best_confidence = 0.0, then the loop
FindBestMatch(bucket, pm_trade) == BestMatchLoop(bucket, pm_trade, 1, None, 0)

\* self._by_sport[sport][game_key]: the markets filed under the pair, in
\* index-insertion order (empty when the sport or the key is not in the index)
Bucket(markets, sport, game_key) ==
    SelectSeq(markets, LAMBDA m : m.sport = sport /\ m.game_key = game_key)

\* find_match over an index: exact (sport, game key) bucket only
FindMatchIn(markets, pm_trade) ==
    IF pm_trade.sport = "" THEN None
    ELSE FindBestMatch(Bucket(markets, pm_trade.sport,
                              BuildGameKey(pm_trade.teams[1], pm_trade.teams[2])),
                       pm_trade)

\* find_match of the executor's matcher
FindMatch(pm_trade) == FindMatchIn(KalshiMarkets, pm_trade)

\* no find_match call made yet
NoFind == [called |-> FALSE]

\* a find_match call and what it returned
Found(pm_trade, match) == [called |-> TRUE, pm_trade |-> pm_trade, match |-> match]

-----------------------------------------------------------------------------
(* kalshi_executor.py: WhaleAnalyzer *)

\* add_trades: extend the history and keep the last window_size entries;
\* the history is kept as the 'size' field of each raw trade, all get_stats reads
AddTrades(trade_history, trades) ==
    LastN(trade_history \o [i \in DOMAIN trades |-> trades[i].size], whale_avg_window)

\* WhaleAnalyzer(window_size): an analyzer a is the record [window_size,
\* trade_history, added], added being every size ever passed to add_trades
NewWhaleAnalyzer(window_size) ==
    [window_size |-> window_size, trade_history |-> <<>>, added |-> <<>>]

\* add_trades of an analyzer: trade_history.extend(trades), then
\* trade_history = trade_history[-window_size:]
AnalyzerAddTrades(a, sizes) ==
    [a EXCEPT !.trade_history = LastN(@ \o sizes, a.window_size),
              !.added = @ \o sizes]

\* get_stats: the sizes > 0 of the history (avg_wager is their sum over their count)
PositiveSizes(trade_history) == SelectSeq(trade_history, LAMBDA x : x > 0)

\* get_scaled_position, in cents: our_normal_size * trade_size / avg_wager,
\* at most a quarter of the bankroll; our_normal_size when there is no history
GetScaledPosition(trade_history, our_bankroll, trade_size, our_normal_size) ==
    LET sizes == PositiveSizes(trade_history)
    IN IF SumSeq(sizes) <= 0 THEN our_normal_size
       ELSE Min((our_normal_size * trade_size * Len(sizes)) \div SumSeq(sizes),
                (our_bankroll * 25) \div 100)

\* calculate_position_size
CalculatePositionSize(trade_history, pm_trade) ==
    IF pm_trade.size <= 0 THEN 0
    ELSE GetScaledPosition(trade_history, Cents(bankroll), pm_trade.size,
                           (Cents(bankroll) * max_trade_percent) \div 100)

-----------------------------------------------------------------------------
(* kalshi_executor.py: KalshiExecutor.  An executor m is the record         *)
(* [dry_run, positions_by_market, positions_by_side, trade_history, log],   *)
(* log being the content of the TRADE_LOG file it reads and writes.         *)

ZeroMarkets == [g \in GameKeys |-> 0]
ZeroSides == [k \in SideKeys |-> 0]

\* _load_positions: full replay of the trade log
RECURSIVE LoadPositions(_)
LoadPositions(trades) ==
    IF trades = <<>> THEN [positions_by_market |-> ZeroMarkets, positions_by_side |-> ZeroSides]
    ELSE LET before == LoadPositions(SubSeq(trades, 1, Len(trades) - 1))
             t == trades[Len(trades)]
             game_key == t.game_key
             side == t.kalshi_side
             size == t.position_size
         IN IF game_key # <<>> /\ size > 0
            THEN [positions_by_market |->
                    [before.positions_by_market EXCEPT ![game_key] = @ + size],
                  positions_by_side |->
                    IF side # ""
                    THEN [before.positions_by_side EXCEPT ![<<game_key, side>>] = @ + size]
                    ELSE before.positions_by_side]
            ELSE before

\* __init__: a fresh executor object over the existing trade log
NewExecutor(dry_run, log) ==
    [dry_run |-> dry_run,
     positions_by_market |-> LoadPositions(log).positions_by_market,
     positions_by_side |-> LoadPositions(log).positions_by_side,
     trade_history |-> <<>>,
     log |-> log]

\* a faulty variant of AddPosition that forgets the side map
AddPositionMarketOnly(m, game_key, side, size) ==
    [m EXCEPT !.positions_by_market[game_key] = @ + size]

\* the position-tracking update shared by the dry-run branch and _log_trade
AddPosition(m, game_key, side, size) ==
    [m EXCEPT !.positions_by_market[game_key] = @ + size,
              !.positions_by_side[<<game_key, side>>] = @ + size]

\* a faulty variant of LogTrade that updates the ledger and writes no record
LedgerOnly(m, t, match, size, clock) ==
    AddPosition(m, match.game_key, match.kalshi_side, size)

\* _log_trade: append one record to the log file, then update the ledger
LogTrade(m, t, match, size, clock) ==
    AddPosition([m EXCEPT !.log = Append(@, [timestamp |-> clock,
                                             pm_slug |-> t.slug,
                                             kalshi_ticker |-> match.kalshi_market_id,
                                             kalshi_side |-> match.kalshi_side,
                                             position_size |-> size,
                                             game_key |-> match.game_key])],
                match.game_key, match.kalshi_side, size)

\* TradeResult, with what the call did: order = the contract count sent to
\* client.place_order (0: no order placed)
Result(success, position_size, error, order) ==
    [success |-> success, position_size |-> position_size, error |-> error, order |-> order,
     side_key |-> <<>>]

\* a result that names the market side of its order (TradeResult.kalshi_market, .side)
ResultOn(side_key, success, position_size, error, order) ==
    [Result(success, position_size, error, order) EXCEPT !.side_key = side_key]

\* sum(self.positions_by_market.values())
CurrentTotal(m) == SumSeq([i \in 1..Len(KalshiMarkets) |->
                             m.positions_by_market[KalshiMarkets[i].game_key]])

\* a faulty variant of CapBySide that does not cap
NoCap(position_size, remaining) == position_size

\* position size after "Cap by remaining budget for this side"
CapBySide(position_size, remaining) ==
    IF position_size > remaining THEN remaining ELSE position_size

\* the two limit checks that skip a trade before it is sized
SideFull(current_on_side) == current_on_side >= Cents(max_position_size_per_market)
TotalFull(current_total) == current_total >= Cents(max_position_size_total)

\* execute_copy_trade; accepted = the exchange client's answer if an order is placed
ExecuteCopyTrade(m, t, pm_trade, accepted, clock) ==
    LET match == FindMatch(pm_trade)
    IN IF ~match.ok THEN [m |-> m, result |-> Result(FALSE, 0, "no_market", 0)]
       ELSE
       LET side_key == <<match.game_key, match.kalshi_side>>
           current_total == CurrentTotal(m)
           current_on_side == m.positions_by_side[side_key]
           remaining == Cents(max_position_size_per_market) - current_on_side
           position_size == CapBySide(CalculatePositionSize(m.trade_history, pm_trade),
                                      remaining)
       IN IF SideFull(current_on_side)
          THEN [m |-> m, result |-> Result(FALSE, 0, "max_side", 0)]
          ELSE IF TotalFull(current_total)
          THEN [m |-> m, result |-> Result(FALSE, 0, "max_total", 0)]
          ELSE IF position_size < Cents(1)
          THEN [m |-> m, result |-> Result(FALSE, position_size, "too_small", 0)]
          ELSE IF m.dry_run
          THEN [m |-> AddPosition(m, match.game_key, match.kalshi_side, position_size),
                result |-> Result(TRUE, position_size, "", 0)]
          ELSE IF accepted
          THEN [m |-> LogTrade(m, t, match, position_size, clock),
                result |-> ResultOn(side_key, TRUE, position_size, "",
                                    position_size \div 100)]
          ELSE [m |-> m,
                result |-> ResultOn(side_key, FALSE, position_size, "order_failed",
                                    position_size \div 100)]

\* _recently_traded: a log record younger than the cooldown whose slug ends
\* with both team codes of the trade
RecentlyTraded(m, pm_trade, clock) ==
    \E i \in DOMAIN m.log :
        /\ m.log[i].timestamp > clock - cooldown_minutes
        /\ EndsWith(m.log[i].pm_slug, pm_trade.teams[1])
        /\ EndsWith(m.log[i].pm_slug, pm_trade.teams[2])

\* the body of the for loop of process_whale_trades, for one trade
ProcessOne(m, t, accepted, clock) ==
    LET pm_trade == ParsePmTrade(t)
    IN IF ~pm_trade.ok THEN [m |-> m, result |-> Result(FALSE, 0, "parse", 0)]
       ELSE IF RecentlyTraded(m, pm_trade, clock)
       THEN [m |-> m, result |-> Result(FALSE, 0, "recent", 0)]
       ELSE ExecuteCopyTrade(m, t, pm_trade, accepted, clock)

\* the for loop of process_whale_trades over trades[1..n]
RECURSIVE ProcessLoop(_, _, _, _, _)
ProcessLoop(m, trades, accepts, clock, n) ==
    IF n = 0 THEN [m |-> m, results |-> <<>>]
    ELSE LET before == ProcessLoop(m, trades, accepts, clock, n - 1)
             step == ProcessOne(before.m, trades[n], accepts[n], clock)
         IN [m |-> step.m, results |-> Append(before.results, step.result)]

\* process_whale_trades: the whole batch enters the whale window first
ProcessWhaleTrades(m, whale_trades, accepts, clock) ==
    ProcessLoop([m EXCEPT !.trade_history = AddTrades(@, whale_trades)],
                whale_trades, accepts, clock, Len(whale_trades))

-----------------------------------------------------------------------------
(* pm_executor.py: PolymarketCopyExecutor.  An executor p is the record     *)
(* [dry_run, positions, total_exposure].                                    *)

TokenIds == {FirstNonEmpty(<<t.tokenId, t.clobTokenId>>) : t \in RawTrades}

NewPMExecutor(dry_run) ==
    [dry_run |-> dry_run, positions |-> [k \in TokenIds |-> 0], total_exposure |-> 0]

\* our_size: 10% of the whale's size, at most max_position_size
PMOurSize(t) ==
    Min(FirstNonZero(<<t.amount, t.size>>) * 10, Cents(pm_max_position_size))

\* a faulty variant of execute_copy_trade that leaves the total exposure unchecked
PMExecuteCopyTradeNoTotal(p, t, accepted) ==
    LET token_id == FirstNonEmpty(<<t.tokenId, t.clobTokenId>>)
        our_size == PMOurSize(t)
    IN IF our_size < Cents(1)
       THEN [p |-> p, result |-> Result(FALSE, 0, "too_small", 0)]
       ELSE IF p.positions[token_id] + our_size > Cents(pm_max_position_size) * 2
       THEN [p |-> p, result |-> Result(FALSE, 0, "max_market", 0)]
       ELSE IF p.dry_run
       THEN [p |-> p, result |-> Result(TRUE, our_size, "", 0)]
       ELSE IF accepted
       THEN [p |-> [p EXCEPT !.total_exposure = @ + our_size,
                             !.positions[token_id] = @ + our_size],
             result |-> Result(TRUE, our_size, "", our_size)]
       ELSE [p |-> p, result |-> Result(FALSE, 0, "order_failed", our_size)]

\* PolymarketCopyExecutor.execute_copy_trade
PMExecuteCopyTrade(p, t, accepted) ==
    LET token_id == FirstNonEmpty(<<t.tokenId, t.clobTokenId>>)
        our_size == PMOurSize(t)
    IN IF our_size < Cents(1)
       THEN [p |-> p, result |-> Result(FALSE, 0, "too_small", 0)]
       ELSE IF p.positions[token_id] + our_size > Cents(pm_max_position_size) * 2
       THEN [p |-> p, result |-> Result(FALSE, 0, "max_market", 0)]
       ELSE IF p.total_exposure + our_size > Cents(pm_max_total_exposure)
       THEN [p |-> p, result |-> Result(FALSE, 0, "max_total", 0)]
       ELSE IF p.dry_run
       THEN [p |-> p, result |-> Result(TRUE, our_size, "", 0)]
       ELSE IF accepted
       THEN [p |-> [p EXCEPT !.total_exposure = @ + our_size,
                             !.positions[token_id] = @ + our_size],
             result |-> Result(TRUE, our_size, "", our_size)]
       ELSE [p |-> p, result |-> Result(FALSE, 0, "order_failed", our_size)]

\* execute_copy_trade up to "await self.client.place_order": the error it
\* returns with, "" when it goes on to place the order (a dry run returns
\* before the order)
PMRefusal(p, t) ==
    LET token_id == FirstNonEmpty(<<t.tokenId, t.clobTokenId>>)
        our_size == PMOurSize(t)
    IN IF our_size < Cents(1) THEN "too_small"
       ELSE IF p.positions[token_id] + our_size > Cents(pm_max_position_size) * 2
       THEN "max_market"
       ELSE IF p.total_exposure + our_size > Cents(pm_max_total_exposure)
       THEN "max_total"
       ELSE IF p.dry_run THEN "dry_run"
       ELSE ""

\* execute_copy_trade after the await: the ledger update on result["success"]
PMCommit(p, token_id, our_size, accepted) ==
    IF accepted
    THEN [p EXCEPT !.total_exposure = @ + our_size, !.positions[token_id] = @ + our_size]
    ELSE p

\* the coroutines of execute_copy_trade that run in one event loop
Tasks == {1, 2}

\* a coroutine not started, or returned
Idle == [pc |-> "idle"]

\* a coroutine suspended in "await self.client.place_order", with its locals
Awaiting(token_id, our_size) ==
    [pc |-> "awaiting", token_id |-> token_id, our_size |-> our_size]

\* the loop "for trade in new_trades: await executor.execute_copy_trade(trade)"
RECURSIVE PMCopyAll(_, _, _, _)
PMCopyAll(p, trades, accepts, n) ==
    IF n = 0 THEN [p |-> p, results |-> <<>>]
    ELSE LET before == PMCopyAll(p, trades, accepts, n - 1)
             step == PMExecuteCopyTrade(before.p, trades[n], accepts[n])
         IN [p |-> step.p, results |-> Append(before.results, step.result)]

-----------------------------------------------------------------------------
(* run_kalshi_copy.py / run_pm_copy.py: main() *)

\* trade.get("conditionId") or trade.get("transactionHash") or trade.get("id")
TradeId(t) == FirstNonEmpty(<<t.conditionId, t.transactionHash, t.id>>)

\* a faulty variant of IsNew that ignores the seen set
IsNewAlways(t, seen) == TradeId(t) # ""

\* is this trade of the cycle new, given the ids seen so far
IsNew(t, seen) == TradeId(t) # "" /\ TradeId(t) \notin seen

\* the filter loop over all_trades[1..n]: the new trades and the grown seen set
RECURSIVE FilterNew(_, _, _)
FilterNew(all_trades, seen, n) ==
    IF n = 0 THEN [new_trades |-> <<>>, seen |-> seen]
    ELSE LET before == FilterNew(all_trades, seen, n - 1)
             t == all_trades[n]
         IN IF IsNew(t, before.seen)
            THEN [new_trades |-> Append(before.new_trades, t),
                  seen |-> before.seen \cup {TradeId(t)}]
            ELSE before

\* the sports filter of run_kalshi_copy: parsed, and with a sport
IsSports(t) == ParsePmTrade(t).ok /\ ParsePmTrade(t).sport # ""

-----------------------------------------------------------------------------
(* Observation *)

TradeIds == {TradeId(t) : t \in RawTrades} \ {""}

ZeroHanded == [id \in TradeIds |-> 0]

ZeroCount == [h \in {t.transactionHash : t \in RawTrades} |-> 0]

ZeroFilled == [by_side |-> ZeroSides, orders |-> 0]

\* handed with one more count (0, 1, many) for the id of every trade trades[1..n]
RECURSIVE HandOver(_, _, _)
HandOver(f, trades, n) ==
    IF n = 0 THEN f
    ELSE LET before == HandOver(f, trades, n - 1)
         IN [before EXCEPT ![TradeId(trades[n])] = Min(@ + 1, 2)]

\* execEver with one more count (0, 1, many) for every trade trades[i], i in 1..n,
\* whose result is a success
RECURSIVE CountExecuted(_, _, _, _)
CountExecuted(f, trades, results, n) ==
    IF n = 0 THEN f
    ELSE LET before == CountExecuted(f, trades, results, n - 1)
         IN IF results[n].success
            THEN [before EXCEPT ![trades[n].transactionHash] = Min(@ + 1, 2)]
            ELSE before

\* filled with the orders among results[1..n] that were sent and that the
\* exchange accepted
RECURSIVE Fill(_, _, _, _)
Fill(f, results, accepts, n) ==
    IF n = 0 THEN f
    ELSE LET before == Fill(f, results, accepts, n - 1)
         IN IF results[n].order > 0 /\ accepts[n]
            THEN [by_side |-> [before.by_side EXCEPT
                                 ![results[n].side_key] = @ + results[n].position_size],
                  orders |-> before.orders + 1]
            ELSE before

\* the trade ids in all_trades that were seen before the feed returns them
Refeeds(all_trades, seen) ==
    {TradeId(all_trades[i]) :
        i \in {j \in DOMAIN all_trades :
                 /\ TradeId(all_trades[j]) # ""
                 /\ \/ TradeId(all_trades[j]) \in seen
                    \/ \E k \in 1..(j - 1) :
                          TradeId(all_trades[k]) = TradeId(all_trades[j])}}

\* the ids of the trades trades[i] whose order the exchange refused
FailedIds(trades, results) ==
    {TradeId(trades[i]) : i \in {j \in DOMAIN trades : results[j].error = "order_failed"}}

\* the exchange's answers to the orders of one call, by position in the batch
Accepts(trades) == [DOMAIN trades -> BOOLEAN]

\* the executor object m without the log file, and the object e with the file
Obj(m) == [dry_run |-> m.dry_run, positions_by_market |-> m.positions_by_market,
           positions_by_side |-> m.positions_by_side, trade_history |-> m.trade_history]

Mach(e, log) == [dry_run |-> e.dry_run, positions_by_market |-> e.positions_by_market,
                 positions_by_side |-> e.positions_by_side,
                 trade_history |-> e.trade_history, log |-> log]

-----------------------------------------------------------------------------
(* risk_manager.py: RiskManager                                             *)
(*                                                                          *)
(* Percentages are kept in basis points (1/100 of a percent), money in      *)
(* cents; each division is truncated to the unit.                           *)

\* constructor defaults of RiskManager, in percent
risk_max_trade_percent == 2
max_trader_exposure == 10
max_total_exposure == 30
max_drawdown_percent == 15
\* drawdown_reduction_factor = 0.5, in hundredths
drawdown_reduction_factor == 50
\* "if proposed_size < 1.0": the smallest position the drawdown step lets through, in cents
MinAfterReduction == 100

\* a percentage as basis points
Bp(percent) == percent * 100

\* amount / self.bankroll * 100, in basis points
PercentOf(amount, of_bankroll) == (amount * 10000) \div of_bankroll

\* (percent / 100) * self.bankroll, in cents
SizeOf(bp, of_bankroll) == (bp * of_bankroll) \div 10000

\* the trader wallets
Wallets == {"0xabc123", "0xdef456"}

ZeroExposures == [w \in Wallets |-> 0]

\* RiskManager(bankroll=b)
NewRiskManager(b) ==
    [bankroll |-> b, trader_exposures |-> ZeroExposures, current_drawdown |-> 0,
     peak_bankroll |-> b, current_exposure_percent |-> 0]

\* RiskManager._calculate_risk_level with trader_win_rate = 0.6 and
\* current_trader_pnl = 0.0, the defaults of check_position
CalculateRiskLevel(r, position_size) ==
    LET size_percent == PercentOf(position_size, r.bankroll)
    IN IF size_percent > 150 THEN "high"
       ELSE IF size_percent > 100 THEN "medium"
       ELSE "low"

\* what the drawdown step of check_position makes of an amount:
\* proposed_size * (1.0 - drawdown_reduction_factor * drawdown_ratio)
Reduced(r, size) ==
    (size * (100 * Bp(max_drawdown_percent) - drawdown_reduction_factor * r.current_drawdown))
        \div (100 * Bp(max_drawdown_percent))

\* "if self.current_drawdown > 0" and "if drawdown_ratio > 0.5"
Throttled(r) ==
    /\ r.current_drawdown > 0
    /\ 2 * r.current_drawdown > Bp(max_drawdown_percent)

\* Check 2 of check_position: "if potential_exposure > self.max_trader_exposure"
OverTrader(r, trader_wallet, size) ==
    r.trader_exposures[trader_wallet] + PercentOf(size, r.bankroll) > Bp(max_trader_exposure)

\* a check_position without Check 2
PerTraderUnlimited(r, trader_wallet, size) == size

\* Check 2 of check_position: the amount after the per-trader limit
PerTraderLimit(r, trader_wallet, size) ==
    IF OverTrader(r, trader_wallet, size)
    THEN SizeOf(Bp(max_trader_exposure) - r.trader_exposures[trader_wallet], r.bankroll)
    ELSE size

\* RiskManager.check_position(trader_wallet, proposed_size)
CheckPosition(r, trader_wallet, proposed_size) ==
    LET max_size == SizeOf(Bp(risk_max_trade_percent), r.bankroll)
        \* Check 1: max per trade
        over1 == proposed_size > max_size
        size1 == IF over1 THEN max_size ELSE proposed_size
        \* Check 2: per-trader exposure
        over2 == OverTrader(r, trader_wallet, size1)
        size2 == PerTraderLimit(r, trader_wallet, size1)
        \* Check 3: total exposure
        over3 == r.current_exposure_percent + PercentOf(size2, r.bankroll)
                     > Bp(max_total_exposure)
        size3 == IF over3
                 THEN SizeOf(Bp(max_total_exposure) - r.current_exposure_percent, r.bankroll)
                 ELSE size2
        \* Check 4: drawdown-based reduction
        size4 == IF Throttled(r) THEN Reduced(r, size3) ELSE size3
        warnings == (IF over1 THEN {"per_trade"} ELSE {})
                    \cup (IF over2 THEN {"per_trader"} ELSE {})
                    \cup (IF over3 THEN {"total"} ELSE {})
                    \cup (IF Throttled(r) THEN {"drawdown"} ELSE {})
    IN IF Throttled(r) /\ size4 < MinAfterReduction
       THEN [approved |-> FALSE, risk_level |-> "critical", position_size |-> 0,
             warnings |-> warnings \cup {"too_small"}, final_position_size |-> 0,
             suggested_multiplier |-> 0]
       ELSE [approved |-> TRUE, risk_level |-> CalculateRiskLevel(r, size4),
             position_size |-> size4, warnings |-> warnings,
             final_position_size |-> size4,
             \* proposed_size / max_size, in hundredths
             suggested_multiplier |-> (size4 * 100) \div max_size]

\* RiskManager._update_total_exposure
UpdateTotalExposure(r) ==
    [r EXCEPT !.current_exposure_percent =
        r.trader_exposures["0xabc123"] + r.trader_exposures["0xdef456"]]

\* RiskManager.add_trader_exposure(trader_wallet, amount)
AddTraderExposure(r, trader_wallet, amount) ==
    UpdateTotalExposure(
        [r EXCEPT !.trader_exposures[trader_wallet] = @ + PercentOf(amount, r.bankroll)])

\* RiskManager.remove_trader_exposure(trader_wallet, amount)
RemoveTraderExposure(r, trader_wallet, amount) ==
    LET left == r.trader_exposures[trader_wallet] - PercentOf(amount, r.bankroll)
    IN UpdateTotalExposure(
           [r EXCEPT !.trader_exposures[trader_wallet] = IF left > 0 THEN left ELSE 0])

\* RiskManager.update_bankroll(new_bankroll, peak_bankroll); peak_bankroll = 0
\* stands for the default None ("if peak_bankroll:" is false for both)
UpdateBankroll(r, new_bankroll, peak_bankroll) ==
    LET peak == IF peak_bankroll # 0 THEN peak_bankroll
                ELSE IF r.peak_bankroll > new_bankroll THEN r.peak_bankroll
                ELSE new_bankroll
    IN [r EXCEPT !.bankroll = new_bankroll,
                 !.peak_bankroll = peak,
                 !.current_drawdown = IF peak > 0
                                      THEN ((peak - new_bankroll) * 10000) \div peak
                                      ELSE @]

\* RiskManager.reset
Reset(r) ==
    [r EXCEPT !.trader_exposures = ZeroExposures, !.current_drawdown = 0,
              !.peak_bankroll = r.bankroll, !.current_exposure_percent = 0]

\* no check_position call made yet
NoCheck == [called |-> FALSE]

\* a check_position call and what it returned
Checked(trader_wallet, proposed_size, result) ==
    [called |-> TRUE, trader_wallet |-> trader_wallet, proposed_size |-> proposed_size,
     result |-> result]

-----------------------------------------------------------------------------
(* position_scaler.py, whale_scaler.py, monitor_proportional.py: the sizing *)
(* strategies.  Bets, bankrolls and averages are whole dollars, the sizes   *)
(* returned are cents.                                                      *)

\* ScalerConfig(our_bankroll, trader_avg_bet), dollars
ScalerConfig(our_bankroll, trader_avg_bet) ==
    [our_bankroll |-> our_bankroll, trader_avg_bet |-> trader_avg_bet]

\* ScalerConfig.trader_bankroll, TRADER_ESTIMATED_BANKROLL, dollars
trader_bankroll == 10000
\* OUR_BANKROLL of monitor_proportional.py, dollars
OUR_BANKROLL == 433
\* max_position_pct, percent
max_position_pct == 15
\* the "minimum" every strategy applies to its size, cents
MinCopy == 100

\* n / d rounded to the nearest integer: round(x, 2) of a size in cents.  A
\* size that lies exactly between two cents goes where its binary float lies,
\* up or down; the amounts of the model produce no such size.
Round(n, d) ==
    LET q == n \div d
        r == n % d
    IN IF 2 * r > d \/ (2 * r = d /\ q % 2 = 1) THEN q + 1 ELSE q

Max(a, b) == IF a > b THEN a ELSE b

\* self.max_position, MAX_POSITION: our_bankroll * 0.15, in cents
MaxPosition(our_bankroll) == our_bankroll * max_position_pct

\* what a sizing call returns: capped is the size after the cap, rounded to
\* cents, our_copy the size returned
Sized(capped, our_copy) == [capped |-> capped, our_copy |-> our_copy]

\* our_copy = max(round(our_copy, 2), 1.0)
AtLeastMin(capped) == Sized(capped, Max(capped, MinCopy))

\* PositionScaler.calculate: trader_bet * bankroll_ratio * 1.5, times 1.15
\* above 150% of the average and 0.9 below 50%, capped at max_position
PositionScalerCalculate(config, trader_bet) ==
    LET boost == IF config.trader_avg_bet > 0 /\ 2 * trader_bet > 3 * config.trader_avg_bet
                 THEN 115
                 ELSE IF config.trader_avg_bet > 0 /\ 2 * trader_bet < config.trader_avg_bet
                 THEN 90 ELSE 100
        our_share == Round(trader_bet * config.our_bankroll * 15 * boost,
                           trader_bankroll * 10)
    IN AtLeastMin(Min(our_share, MaxPosition(config.our_bankroll)))

\* WhaleScaler.calculate: our_bankroll * (pct_of_avg * 2.0) / 100, capped at
\* max_position
WhaleScalerCalculate(config, trader_bet) ==
    LET our_copy == Round(config.our_bankroll * trader_bet * 2, config.trader_avg_bet)
    IN AtLeastMin(Min(our_copy, MaxPosition(config.our_bankroll)))

\* calculate_position of monitor_proportional.py: trader_bet * BANKROLL_RATIO
\* * pct_of_avg, capped at MAX_POSITION, 1.0 when below 1.0
CalculatePosition(trader_avg_bet, trader_bet) ==
    LET our_position == Round(trader_bet * trader_bet * OUR_BANKROLL,
                              100 * trader_avg_bet)
    IN AtLeastMin(Min(our_position, MaxPosition(OUR_BANKROLL)))

\* no sizing call made yet
NoSize == [called |-> FALSE]

\* a sizing call and what it returned
SizeCall(strategy, trader_bet, result) ==
    [called |-> TRUE, strategy |-> strategy, trader_bet |-> trader_bet, result |-> result]

-----------------------------------------------------------------------------
(* trade_executor.py: PolymarketClient.place_order, TradeExecutor *)

\* what happens to an order: the exchange answers HTTP 200, it answers
\* another status, the POST raises, or signing the order raises before the POST
Outcomes == {"accepted", "http_error", "post_failed", "sign_failed"}

\* place_order: the exchange's answer on HTTP 200; a dict with status "ERROR"
\* on another HTTP status and when the POST raises; an exception raised
\* outside its try block goes to the caller
PlaceOrder(outcome) ==
    CASE outcome = "accepted" -> [raised |-> FALSE, status |-> "OK"]
      [] outcome \in {"http_error", "post_failed"} -> [raised |-> FALSE, status |-> "ERROR"]
      [] OTHER -> [raised |-> TRUE, status |-> ""]

\* execute_trade (execute_copy_trade passes my_position_size as size): success
\* unless place_order raised
ExecuteTrade(outcome, size) ==
    [success |-> ~PlaceOrder(outcome).raised, size |-> size]

\* no order sent by the callback
NoOrder == [called |-> FALSE]

\* an order of the callback: what the exchange did, the ExecutionResult, and
\* whether add_trader_exposure was called for it
Ordered(outcome, result, exposure_added) ==
    [called |-> TRUE, outcome |-> outcome, result |-> result,
     exposure_added |-> exposure_added]

-----------------------------------------------------------------------------
(* kelly_calculator.py: KellyCalculator.  Win rates are whole percents, win/ *)
(* loss ratios tenths, percentages of the bankroll basis points, sizes cents *)

\* KellyCalculator(kelly_fraction=0.5), hundredths
kelly_fraction == 50

\* "Validate inputs": an invalid win rate becomes 0.6, an invalid ratio 1.5
ValidWinRate(win_rate) == IF win_rate < 0 \/ win_rate > 100 THEN 60 ELSE win_rate
ValidRatio(win_loss_ratio) == IF win_loss_ratio <= 0 THEN 15 ELSE win_loss_ratio

\* optimal_size_percent before the limits: (W - (1 - W) / R) * kelly_fraction * 100
KellyPercent(win_rate, win_loss_ratio) ==
    (kelly_fraction * (win_rate * win_loss_ratio - 10 * (100 - win_rate)))
        \div win_loss_ratio

\* a variant without the max trade limit
NoTradeCap(optimal_size_percent) == optimal_size_percent

\* "Apply max trade limit"
CapAtMaxTrade(optimal_size_percent) ==
    IF optimal_size_percent > Bp(risk_max_trade_percent)
    THEN Bp(risk_max_trade_percent)
    ELSE optimal_size_percent

\* "Apply trader exposure limit"
CapAtTraderExposure(optimal_size_percent, current_trader_exposure) ==
    IF current_trader_exposure + optimal_size_percent > Bp(max_trader_exposure)
    THEN Bp(max_trader_exposure) - current_trader_exposure
    ELSE optimal_size_percent

\* calculate_kelly: the limits, "Handle negative Kelly", and the size in cents
CalculateKelly(win_rate, win_loss_ratio, current_trader_exposure) ==
    LET kelly == KellyPercent(ValidWinRate(win_rate), ValidRatio(win_loss_ratio))
        limited == CapAtTraderExposure(CapAtMaxTrade(kelly), current_trader_exposure)
        optimal_size_percent == IF limited < 0 THEN 0 ELSE limited
    IN [kelly_fraction |-> optimal_size_percent,
        optimal_size_percent |-> optimal_size_percent,
        recommended_position_size |-> Round(optimal_size_percent * bankroll, 100)]

\* no calculate_kelly call made yet
\* trade_monitor.py: last_trades[wallet] is the dict {"latest": tx_hash}, of a
\* hash that is never empty; latest = "" stands for a wallet with no entry
NoEntry == [latest |-> ""]
Latest(tx_hash) == [latest |-> tx_hash]

\* self.last_trades.get(wallet, {}).get(key)
LastTradesGet(entry, key) ==
    IF key = "latest" THEN entry.latest ELSE ""

\* the transaction hashes of the activity feed; "" = a record without a hash
TxHashes == {"", "0xa1", "0xb2", "latest"}

\* is_new_trade: the answer, and last_trades[wallet] after the call
IsNewTrade(entry, tx_hash) ==
    IF tx_hash = "" THEN [new |-> FALSE, entry |-> entry]
    ELSE IF LastTradesGet(entry, tx_hash) # "" THEN [new |-> FALSE, entry |-> entry]
    ELSE [new |-> TRUE, entry |-> Latest(tx_hash)]

\* the listing the index was last loaded from
NoCatalog == [loaded |-> FALSE]
Loaded(open) == [loaded |-> TRUE, open |-> open]

NoKelly == [called |-> FALSE]

\* a calculate_kelly call and what it returned
KellyCall(win_rate, win_loss_ratio, current_trader_exposure, result) ==
    [called |-> TRUE, win_rate |-> win_rate, win_loss_ratio |-> win_loss_ratio,
     current_trader_exposure |-> current_trader_exposure, result |-> result]

-----------------------------------------------------------------------------
(* The poll loops *)

\* the trades the origin feed can return to the poll loops
LoopTrades == {t \in RawTrades : t.transactionHash \in {"h1", "h2", "h4", "h7", "h9", ""}}

InitCommon ==
    /\ pc = "polling"
    /\ seen_trades = {}
    /\ trade_log = <<>>
    /\ now = 0
    /\ handed = ZeroHanded
    /\ refed = {}
    /\ failed = {}
    /\ execEver = ZeroCount
    /\ filled = ZeroFilled
    /\ rm = NewRiskManager(Cents(bankroll))
    /\ risk_result = NoCheck
    /\ kalshi_markets = KalshiMarkets
    /\ last_find = NoFind
    /\ analyzer = NewWhaleAnalyzer(whale_avg_window)
    /\ scaler = ScalerConfig(433, 100)
    /\ last_size = NoSize
    /\ last_order = NoOrder
    /\ last_parse = NoParse
    /\ tasks = [i \in Tasks |-> Idle]
    /\ last_kelly = NoKelly
    /\ catalog = NoCatalog
    /\ last_copy = [called |-> FALSE]
    /\ last_batch = [called |-> FALSE]
    /\ feed = [h \in DOMAIN ZeroCount |-> [fed |-> FALSE, new |-> 0]]
    /\ fetching = [error_count |-> 0, waits |-> <<>>, slept |-> 0]
    /\ last_trades = [w \in Wallets |-> NoEntry]
    /\ surfaced = [w \in Wallets |-> [h \in TxHashes |-> 0]]

Init ==
    /\ script \in {"run_kalshi_copy", "run_pm_copy"}
    /\ \E dry_run \in BOOLEAN :
          /\ ex = Obj(NewExecutor(dry_run, <<>>))
          /\ pm = NewPMExecutor(dry_run)
    /\ twin = NewExecutor(TRUE, <<>>)
    /\ InitCommon

\* one cycle of "while True" in run_kalshi_copy.main
KalshiPoll(all_trades, accepts) ==
    /\ script = "run_kalshi_copy"
    /\ pc = "polling"
    /\ LET f == FilterNew(all_trades, seen_trades, Len(all_trades))
           sports_trades == SelectSeq(f.new_trades, IsSports)
           r == ProcessWhaleTrades(Mach(ex, trade_log), sports_trades, accepts, now)
       IN /\ seen_trades' = f.seen
          /\ refed' = refed \cup Refeeds(all_trades, seen_trades)
          /\ IF f.new_trades # <<>>
             THEN /\ Len(r.m.log) <= MaxLog
                  /\ ex' = Obj(r.m)
                  /\ trade_log' = r.m.log
                  /\ failed' = failed \cup FailedIds(sports_trades, r.results)
                  /\ handed' = HandOver(handed, sports_trades, Len(sports_trades))
                  /\ execEver' = CountExecuted(execEver, sports_trades, r.results,
                                               Len(sports_trades))
                  \* "for r in results if r.success": results is a tuple of two
                  \* lists, the attribute lookup raises and the process ends
                  /\ pc' = "crashed"
             ELSE UNCHANGED <<ex, trade_log, failed, handed, execEver, pc>>
    /\ UNCHANGED aux
    /\ UNCHANGED ext
    /\ UNCHANGED <<script, now, pm, twin, filled>>

\* one cycle of "while True" in run_pm_copy.main
PMScanTrades(all_trades, accepts) ==
    /\ pc = "polling"
    /\ LET f == FilterNew(all_trades, seen_trades, Len(all_trades))
           r == PMCopyAll(pm, f.new_trades, accepts, Len(f.new_trades))
       IN /\ seen_trades' = f.seen
          /\ refed' = refed \cup Refeeds(all_trades, seen_trades)
          /\ IF f.new_trades # <<>>
             THEN /\ pm' = r.p
                  /\ failed' = failed \cup FailedIds(f.new_trades, r.results)
                  /\ handed' = HandOver(handed, f.new_trades, Len(f.new_trades))
             ELSE UNCHANGED <<pm, failed, handed>>
    /\ UNCHANGED aux
    /\ UNCHANGED <<script, pc, ex, trade_log, now, twin, execEver, filled>>

\* the cycle, in the script run on its own
PMPoll(all_trades, accepts) ==
    /\ script = "run_pm_copy"
    /\ PMScanTrades(all_trades, accepts)
    /\ UNCHANGED ext

\* the process is stopped or has died, and the script is started again
Restart ==
    /\ script \in {"run_kalshi_copy", "run_pm_copy"}
    /\ pc' = "polling"
    /\ seen_trades' = {}
    /\ ex' = Obj(NewExecutor(ex.dry_run, trade_log))
    /\ pm' = NewPMExecutor(pm.dry_run)
    /\ handed' = ZeroHanded
    /\ refed' = {}
    /\ failed' = {}
    /\ UNCHANGED aux
    /\ UNCHANGED ext
    /\ UNCHANGED <<script, trade_log, now, twin, execEver, filled>>

\* time passes between two poll cycles (time.sleep(FETCH_INTERVAL))
Tick ==
    /\ script \in {"run_kalshi_copy", "run_pm_copy"}
    /\ now < MaxTicks * cooldown_minutes
    /\ now' = now + cooldown_minutes
    /\ UNCHANGED aux
    /\ UNCHANGED ext
    /\ UNCHANGED <<script, pc, seen_trades, ex, trade_log, pm, twin,
                   handed, refed, failed, execEver, filled>>

Next ==
    \/ \E all_trades \in Batches(LoopTrades) : \E accepts \in Accepts(all_trades) :
          KalshiPoll(all_trades, accepts)
    \/ \E all_trades \in Batches(LoopTrades) : \E accepts \in Accepts(all_trades) :
          PMPoll(all_trades, accepts)
    \/ Restart
    \/ Tick

Spec == Init /\ [][Next]_vars

-----------------------------------------------------------------------------
(* The executor driven directly (create_executor, then process_whale_trades *)
(* or parse_pm_trade + execute_copy_trade as in the --test path)            *)

\* the raw trades a caller passes
ApiTrades == {t \in RawTrades : t.transactionHash \in {"h1", "h2", "h3", "h4", "h7", "h8"}}

InitExec ==
    /\ script = "api"
    /\ \E dry_run \in BOOLEAN :
          /\ ex = Obj(NewExecutor(dry_run, <<>>))
          /\ pm = NewPMExecutor(dry_run)
    /\ twin = NewExecutor(TRUE, <<>>)
    /\ InitCommon

\* executor.process_whale_trades(whale_trades)
ApiProcessWhaleTrades(whale_trades, accepts) ==
    /\ script = "api"
    /\ LET r == ProcessWhaleTrades(Mach(ex, trade_log), whale_trades, accepts, now)
       IN /\ Len(r.m.log) <= MaxLog
          /\ ex' = Obj(r.m)
          /\ trade_log' = r.m.log
          /\ filled' = Fill(filled, r.results, accepts, Len(r.results))
    /\ UNCHANGED aux
    /\ UNCHANGED ext
    /\ UNCHANGED <<script, pc, seen_trades, now, pm, twin, handed, refed, failed,
                   execEver>>

\* pm_trade = matcher.parse_pm_trade(t); if pm_trade: executor.execute_copy_trade(t, pm_trade)
ApiExecuteCopyTrade(t, accepted) ==
    /\ script = "api"
    /\ ParsePmTrade(t).ok
    /\ LET r == ExecuteCopyTrade(Mach(ex, trade_log), t, ParsePmTrade(t), accepted, now)
       IN /\ Len(r.m.log) <= MaxLog
          /\ ex' = Obj(r.m)
          /\ trade_log' = r.m.log
          /\ filled' = Fill(filled, <<r.result>>, <<accepted>>, 1)
    /\ UNCHANGED aux
    /\ UNCHANGED ext
    /\ UNCHANGED <<script, pc, seen_trades, now, pm, twin, handed, refed, failed,
                   execEver>>

\* a new executor object is created over the same trade log
ApiReload ==
    /\ script = "api"
    /\ ex' = Obj(NewExecutor(ex.dry_run, trade_log))
    /\ UNCHANGED aux
    /\ UNCHANGED ext
    /\ UNCHANGED <<script, pc, seen_trades, trade_log, now, pm, twin,
                   handed, refed, failed, execEver, filled>>

NextExec ==
    \/ \E whale_trades \in Batches(ApiTrades) : \E accepts \in Accepts(whale_trades) :
          ApiProcessWhaleTrades(whale_trades, accepts)
    \/ \E t \in ApiTrades, accepted \in BOOLEAN : ApiExecuteCopyTrade(t, accepted)
    \/ ApiReload

SpecExec == InitExec /\ [][NextExec]_vars

-----------------------------------------------------------------------------
(* A live executor (ex, trade_log) and a dry-run executor (twin) given the  *)
(* same calls, the exchange accepting every order                           *)

AllAccepted == [i \in 1..MaxBatch |-> TRUE]

InitModes ==
    /\ script = "modes"
    /\ ex = Obj(NewExecutor(FALSE, <<>>))
    /\ twin = NewExecutor(TRUE, <<>>)
    /\ pm = NewPMExecutor(FALSE)
    /\ InitCommon

ModesProcessWhaleTrades(whale_trades) ==
    /\ script = "modes"
    /\ LET r == ProcessWhaleTrades(Mach(ex, trade_log), whale_trades, AllAccepted, now)
           d == ProcessWhaleTrades(twin, whale_trades, AllAccepted, now)
       IN /\ Len(r.m.log) <= MaxLog
          /\ ex' = Obj(r.m)
          /\ trade_log' = r.m.log
          /\ twin' = d.m
          /\ execEver' = CountExecuted(execEver, whale_trades, r.results,
                                       Len(whale_trades))
    /\ UNCHANGED aux
    /\ UNCHANGED ext
    /\ UNCHANGED <<script, pc, seen_trades, now, pm, handed, refed, failed, filled>>

ModesExecuteCopyTrade(t) ==
    /\ script = "modes"
    /\ ParsePmTrade(t).ok
    /\ LET r == ExecuteCopyTrade(Mach(ex, trade_log), t, ParsePmTrade(t), TRUE, now)
           d == ExecuteCopyTrade(twin, t, ParsePmTrade(t), TRUE, now)
       IN /\ Len(r.m.log) <= MaxLog
          /\ ex' = Obj(r.m)
          /\ trade_log' = r.m.log
          /\ twin' = d.m
    /\ UNCHANGED aux
    /\ UNCHANGED ext
    /\ UNCHANGED <<script, pc, seen_trades, now, pm, handed, refed, failed,
                   execEver, filled>>

NextModes ==
    \/ \E whale_trades \in Batches(ApiTrades) : ModesProcessWhaleTrades(whale_trades)
    \/ \E t \in ApiTrades : ModesExecuteCopyTrade(t)

SpecModes == InitModes /\ [][NextModes]_vars

-----------------------------------------------------------------------------
(* The RiskManager driven through its methods ("risk_api"), and driven by   *)
(* the trade callback of src/main.py ("on_trade")                           *)

\* bankrolls and peaks a caller reports, in cents (peak 0: argument left out)
Bankrolls == {40000, 20000}
Peaks == {0, 42000, 45000, 50000, 80000}
\* amounts of exposure a caller adds or removes, in cents
Amounts == {2000, 4000}
\* position sizes proposed to check_position, in cents
Proposals == {0, 50, 100, 500, 800, 5000}
\* position sizes the Kelly calculator recommends to on_trade, in cents
Recommended == {0, 800, 5000}
\* the traders the monitor follows (MonitorConfig.user_addresses)
Followed == {"0xabc123"}

InitRisk ==
    /\ script \in {"risk_api", "on_trade"}
    /\ ex = Obj(NewExecutor(TRUE, <<>>))
    /\ pm = NewPMExecutor(TRUE)
    /\ twin = NewExecutor(TRUE, <<>>)
    /\ InitCommon

\* risk.check_position(trader_wallet, proposed_size)
RiskCheckPosition(trader_wallet, proposed_size) ==
    /\ script = "risk_api"
    /\ risk_result' = Checked(trader_wallet, proposed_size,
                              CheckPosition(rm, trader_wallet, proposed_size))
    /\ UNCHANGED <<rm, kalshi_markets, last_find>>
    /\ UNCHANGED core
    /\ UNCHANGED <<sizing, last_parse, tasks, more>>
    /\ last_order' = NoOrder

\* risk.add_trader_exposure(trader_wallet, amount)
RiskAddTraderExposure(trader_wallet, amount) ==
    /\ script = "risk_api"
    /\ AddTraderExposure(rm, trader_wallet, amount).trader_exposures[trader_wallet]
           <= MaxExposure
    /\ rm' = AddTraderExposure(rm, trader_wallet, amount)
    /\ risk_result' = NoCheck
    /\ UNCHANGED <<kalshi_markets, last_find>>
    /\ UNCHANGED core
    /\ UNCHANGED <<sizing, last_parse, tasks, more>>
    /\ last_order' = NoOrder

\* risk.remove_trader_exposure(trader_wallet, amount)
RiskRemoveTraderExposure(trader_wallet, amount) ==
    /\ script \in {"risk_api", "on_trade"}
    /\ rm' = RemoveTraderExposure(rm, trader_wallet, amount)
    /\ risk_result' = NoCheck
    /\ UNCHANGED <<kalshi_markets, last_find>>
    /\ UNCHANGED core
    /\ UNCHANGED <<sizing, last_parse, tasks, more>>
    /\ last_order' = NoOrder

\* risk.update_bankroll(new_bankroll, peak_bankroll)
RiskUpdateBankroll(new_bankroll, peak_bankroll) ==
    /\ script \in {"risk_api", "on_trade"}
    /\ rm' = UpdateBankroll(rm, new_bankroll, peak_bankroll)
    /\ risk_result' = NoCheck
    /\ UNCHANGED <<kalshi_markets, last_find>>
    /\ UNCHANGED core
    /\ UNCHANGED <<sizing, last_parse, tasks, more>>
    /\ last_order' = NoOrder

\* risk.reset()
RiskReset ==
    /\ script \in {"risk_api", "on_trade"}
    /\ rm' = Reset(rm)
    /\ risk_result' = NoCheck
    /\ UNCHANGED <<kalshi_markets, last_find>>
    /\ UNCHANGED core
    /\ UNCHANGED <<sizing, last_parse, tasks, more>>
    /\ last_order' = NoOrder

\* main.on_trade(trade): check_position, then, if approved,
\* executor.execute_copy_trade(my_position_size = final_position_size) and, if
\* its result is a success, add_trader_exposure(trade.trader_wallet, result.size)
OnTrade(trader_wallet, proposed_size, outcome) ==
    /\ script = "on_trade"
    /\ LET risk_check == CheckPosition(rm, trader_wallet, proposed_size)
           result == ExecuteTrade(outcome, risk_check.final_position_size)
       IN /\ risk_result' = Checked(trader_wallet, proposed_size, risk_check)
          /\ rm' = IF risk_check.approved /\ result.success
                   THEN AddTraderExposure(rm, trader_wallet, result.size)
                   ELSE rm
          /\ last_order' = IF risk_check.approved
                           THEN Ordered(outcome, result, result.success)
                           ELSE NoOrder
    /\ UNCHANGED <<kalshi_markets, last_find>>
    /\ UNCHANGED core
    /\ UNCHANGED <<sizing, last_parse, tasks, more>>

NextRisk ==
    \/ \E w \in Wallets, p \in Proposals : RiskCheckPosition(w, p)
    \/ \E w \in Wallets, a \in Amounts : RiskAddTraderExposure(w, a)
    \/ \E w \in Wallets, a \in Amounts : RiskRemoveTraderExposure(w, a)
    \/ \E b \in Bankrolls, p \in Peaks : RiskUpdateBankroll(b, p)
    \/ RiskReset
    \/ \E w \in Followed, p \in Recommended, outcome \in Outcomes : OnTrade(w, p, outcome)

SpecRisk == InitRisk /\ [][NextRisk]_vars

-----------------------------------------------------------------------------
(* A MarketMatcher built over a dict of Kalshi markets and asked for        *)
(* matches: MarketMatcher(kalshi_markets), matcher.find_match(pm_trade)     *)

\* a PMTradeData as parse_pm_trade builds it
Signal(sport, teams, market_type, line, side) ==
    [ok |-> TRUE, market_id |-> "c1", token_id |-> "tk1", side |-> side, size |-> 100,
     sport |-> sport, teams |-> teams, market_type |-> market_type, line |-> line]

\* the trades put to find_match
Signals ==
    { Signal("nba", <<"bos", "nyk">>, "winner", NoLine, "yes"),
      Signal("nba", <<"nyk", "bos">>, "winner", NoLine, "no"),
      \* no sport keyword in title or slug
      Signal("", <<"bos", "nyk">>, "winner", NoLine, "yes"),
      \* the spread fallback of _extract_teams: (bet_team, '')
      Signal("nba", <<"bos", "">>, "winner", NoLine, "yes"),
      Signal("nba", <<"", "bos">>, "winner", NoLine, "yes"),
      \* no team last_find in slug or title
      Signal("nba", <<"", "">>, "total", {21050}, "yes"),
      \* "Spread: Knicks (-5.5)"
      Signal("nba", <<"nyk", "bos">>, "spread", {-550}, "yes"),
      \* "O/U 210.5"
      Signal("nba", <<"bos", "nyk">>, "total", {21050}, "no") }

\* a spread market on the Knicks ("nyk ... 5.5 ..."), line in hundredths
SpreadNyk(id, line) ==
    KalshiMarket(id, "nba", "spread", <<"bos", "nyk">>, {"nyk"}, FALSE, {line})

\* a total market ("total points over 211.5"), line in hundredths
TotalOver(id, game_key, line) ==
    KalshiMarket(id, "nba", "total", game_key, {}, TRUE, {line})

\* the markets a kalshi_markets dict is made of
MarketPool ==
    { KalshiMarkets[1],
      \* "game 7": a winner market whose title names neither team
      KalshiMarket("KXNBAGAME-26FEB01BOSNYK-G7", "nba", "winner", <<"bos", "nyk">>,
                   {}, FALSE, NoLine),
      SpreadNyk("KXNBASPREAD-26FEB01BOSNYK-NYK5", 550),
      SpreadNyk("KXNBASPREAD-26FEB01BOSNYK-NYK6", 650),
      SpreadNyk("KXNBASPREAD-26FEB01BOSNYK-NYK651", 651),
      \* "nyk -5.5 spread": the first number of the title carries a sign
      SpreadNyk("KXNBASPREAD-26FEB01BOSNYK-NYKM5", -550),
      TotalOver("KXNBATOTAL-26FEB01BOSNYK-211", <<"bos", "nyk">>, 21150),
      TotalOver("KXNBATOTAL-26FEB01BOSNYK-21151", <<"bos", "nyk">>, 21151),
      \* "under 210.5 points scored": a total market whose yes is the under
      KalshiMarket("KXNBATOTAL-26FEB01BOSNYK-U210", "nba", "total", <<"bos", "nyk">>,
                   {}, FALSE, {21050}),
      \* dict keys "nba:total:-" and "nba:-bos"
      TotalOver("KXNBATOTAL-X-210", <<"", "">>, 21050),
      KalshiMarket("KXNBAGAME-X-BOS", "nba", "winner", <<"", "bos">>,
                   {"bos"}, FALSE, NoLine) }

\* the indexes a matcher is built over
Indexes == UNION { [1..n -> MarketPool] : n \in 0..MaxIndex }

InitMatch ==
    /\ script = "matcher"
    /\ ex = Obj(NewExecutor(TRUE, <<>>))
    /\ pm = NewPMExecutor(TRUE)
    /\ twin = NewExecutor(TRUE, <<>>)
    /\ InitCommon

\* matcher = MarketMatcher(markets)
NewMatcher(markets) ==
    /\ script = "matcher"
    /\ kalshi_markets' = markets
    /\ last_find' = NoFind
    /\ UNCHANGED <<rm, risk_result>>
    /\ UNCHANGED core
    /\ UNCHANGED ext

\* matcher.find_match(pm_trade)
MatcherFindMatch(pm_trade) ==
    /\ script = "matcher"
    /\ last_find' = Found(pm_trade, FindMatchIn(kalshi_markets, pm_trade))
    /\ UNCHANGED <<rm, risk_result, kalshi_markets>>
    /\ UNCHANGED core
    /\ UNCHANGED ext

NextMatch ==
    \/ \E markets \in Indexes : NewMatcher(markets)
    \/ \E pm_trade \in Signals : MatcherFindMatch(pm_trade)

SpecMatch == InitMatch /\ [][NextMatch]_vars

-----------------------------------------------------------------------------
(* The sizing strategies, called directly *)

Bankrolls433 == {433, 100}
AvgBets == {100, 50, 250}
TraderBets == {1, 5, 20, 40, 60, 200, 688, 1000}
\* bets for WhaleScaler: with the bet of the documented example
WhaleBets == TraderBets \cup {100}

WindowSizes == {0, 1, 2}
SizeBatches == UNION { [1..n -> {60, 100}] : n \in 0..2 }

InitSize ==
    /\ script = "sizing"
    /\ ex = Obj(NewExecutor(TRUE, <<>>))
    /\ pm = NewPMExecutor(TRUE)
    /\ twin = NewExecutor(TRUE, <<>>)
    /\ InitCommon

\* scaler = PositionScaler(config), WhaleScaler(config); get_trader_avg()
NewScaler(our_bankroll, trader_avg_bet) ==
    /\ script = "sizing"
    /\ scaler' = ScalerConfig(our_bankroll, trader_avg_bet)
    /\ last_size' = NoSize
    /\ UNCHANGED <<core, aux, analyzer, last_order, last_parse, tasks, more>>

\* PositionScaler(config).calculate(trader_bet)
SizePositionScaler(trader_bet) ==
    /\ script = "sizing"
    /\ last_size' = SizeCall("PositionScaler", trader_bet,
                             PositionScalerCalculate(scaler, trader_bet))
    /\ UNCHANGED <<core, aux, analyzer, scaler, last_order, last_parse, tasks, more>>

\* WhaleScaler(config).calculate(trader_bet)
SizeWhaleScaler(trader_bet) ==
    /\ script = "sizing"
    /\ last_size' = SizeCall("WhaleScaler", trader_bet,
                             WhaleScalerCalculate(scaler, trader_bet))
    /\ UNCHANGED <<core, aux, analyzer, scaler, last_order, last_parse, tasks, more>>

\* calculate_position(trader_bet)
SizeCalculatePosition(trader_bet) ==
    /\ script = "sizing"
    /\ last_size' = SizeCall("calculate_position", trader_bet,
                             CalculatePosition(scaler.trader_avg_bet, trader_bet))
    /\ UNCHANGED <<core, aux, analyzer, scaler, last_order, last_parse, tasks, more>>

\* analyzer = WhaleAnalyzer(window_size=window_size)
SizeNewWhaleAnalyzer(window_size) ==
    /\ script = "sizing"
    /\ analyzer' = NewWhaleAnalyzer(window_size)
    /\ last_size' = NoSize
    /\ UNCHANGED <<core, aux, scaler, last_order, last_parse, tasks, more>>

\* analyzer.add_trades(trades)
SizeAddTrades(sizes) ==
    /\ script = "sizing"
    /\ Len(analyzer.added) + Len(sizes) <= MaxAdded
    /\ analyzer' = AnalyzerAddTrades(analyzer, sizes)
    /\ last_size' = NoSize
    /\ UNCHANGED <<core, aux, scaler, last_order, last_parse, tasks, more>>

\* executor.calculate_position_size(pm_trade), the executor's whale_analyzer
\* holding the history of the analyzer
SizeCalculatePositionSize(trader_bet) ==
    /\ script = "sizing"
    /\ LET our_size == CalculatePositionSize(analyzer.trade_history, [size |-> trader_bet])
       IN last_size' = SizeCall("calculate_position_size", trader_bet,
                                Sized(our_size, our_size))
    /\ UNCHANGED <<core, aux, analyzer, scaler, last_order, last_parse, tasks, more>>

NextSize ==
    \/ \E window_size \in WindowSizes : SizeNewWhaleAnalyzer(window_size)
    \/ \E sizes \in SizeBatches : SizeAddTrades(sizes)
    \/ \E trader_bet \in WhaleBets : SizeCalculatePositionSize(trader_bet)
    \/ \E b \in Bankrolls433, a \in AvgBets : NewScaler(b, a)
    \/ \E trader_bet \in TraderBets : SizePositionScaler(trader_bet)
    \/ \E trader_bet \in WhaleBets : SizeWhaleScaler(trader_bet)
    \/ \E trader_bet \in TraderBets : SizeCalculatePosition(trader_bet)

SpecSize == InitSize /\ [][NextSize]_vars

-----------------------------------------------------------------------------
(* parse_pm_trade called directly on raw trades of the feed *)

\* the values of the size fields of a raw trade
SizeValues == {-5, 0, 1, 60, 100}

\* raw trades with every choice of size, usdcSize and amount, with and
\* without a conditionId (the only id field they carry)
TradeData ==
    { [Raw("h1", cond, "", SlugBosNyk, WinnerTitle, "yes", size, amount)
          EXCEPT !.usdcSize = usdcSize] :
        cond \in {"c1", ""},
        size \in SizeValues, usdcSize \in SizeValues, amount \in SizeValues }

InitParse ==
    /\ script = "parser"
    /\ ex = Obj(NewExecutor(TRUE, <<>>))
    /\ pm = NewPMExecutor(TRUE)
    /\ twin = NewExecutor(TRUE, <<>>)
    /\ InitCommon

\* matcher.parse_pm_trade(trade_data)
MatcherParsePmTrade(trade_data) ==
    /\ script = "parser"
    /\ last_parse' = Parsed(trade_data, ParsePmTrade(trade_data))
    /\ UNCHANGED <<core, aux, sizing, last_order, tasks, more>>

NextParse == \E trade_data \in TradeData : MatcherParsePmTrade(trade_data)

SpecParse == InitParse /\ [][NextParse]_vars

-----------------------------------------------------------------------------
(* Two execute_copy_trade coroutines of one live PolymarketCopyExecutor in   *)
(* one event loop (asyncio.gather): each runs from its start to its await,   *)
(* and from there to its return, without interruption.                       *)

\* the whale trades handed to the coroutines
GatherTrades ==
    { Raw("h1", "c1", token, SlugBosNyk, WinnerTitle, "yes", size, 0) :
        token \in {"tk1", "tk2"}, size \in {400, 500} }

InitGather ==
    /\ script = "gather"
    /\ ex = Obj(NewExecutor(TRUE, <<>>))
    /\ pm = NewPMExecutor(FALSE)
    /\ twin = NewExecutor(TRUE, <<>>)
    /\ InitCommon

\* coroutine i is started on a trade and runs to its await, or to a return
\* before it
GatherStart(i, t) ==
    /\ script = "gather"
    /\ tasks[i].pc = "idle"
    /\ tasks' = [tasks EXCEPT ![i] =
                    IF PMRefusal(pm, t) = ""
                    THEN Awaiting(FirstNonEmpty(<<t.tokenId, t.clobTokenId>>), PMOurSize(t))
                    ELSE Idle]
    /\ UNCHANGED <<core, aux, sizing, last_order, last_parse, more>>

\* place_order returns and coroutine i runs to its return
GatherResume(i, accepted) ==
    /\ script = "gather"
    /\ tasks[i].pc = "awaiting"
    /\ pm' = PMCommit(pm, tasks[i].token_id, tasks[i].our_size, accepted)
    /\ tasks' = [tasks EXCEPT ![i] = Idle]
    /\ UNCHANGED <<script, pc, seen_trades, ex, trade_log, now, twin, handed, refed,
                   failed, execEver, filled>>
    /\ UNCHANGED <<aux, sizing, last_order, last_parse, more>>

NextGather ==
    \/ \E i \in Tasks, t \in GatherTrades : GatherStart(i, t)
    \/ \E i \in Tasks, accepted \in BOOLEAN : GatherResume(i, accepted)

SpecGather == InitGather /\ [][NextGather]_vars

-----------------------------------------------------------------------------
(* calculate_kelly called directly *)

WinRates == {-10, 0, 30, 40, 60, 100, 150}
Ratios == {-10, 0, 5, 10, 15, 30}
Exposures == {-500, 0, 850, 900, 1000, 1200}

InitKelly ==
    /\ script = "kelly"
    /\ ex = Obj(NewExecutor(TRUE, <<>>))
    /\ pm = NewPMExecutor(TRUE)
    /\ twin = NewExecutor(TRUE, <<>>)
    /\ InitCommon

\* kelly.calculate_kelly(win_rate, win_loss_ratio, current_trader_exposure=...)
KellyCalculateKelly(win_rate, win_loss_ratio, current_trader_exposure) ==
    /\ script = "kelly"
    /\ last_kelly' = KellyCall(win_rate, win_loss_ratio, current_trader_exposure,
                               CalculateKelly(win_rate, win_loss_ratio,
                                              current_trader_exposure))
    /\ UNCHANGED <<core, aux, sizing, last_order, last_parse, tasks, catalog,
                   last_trades, surfaced, fetching, feed, last_batch, last_copy>>

NextKelly ==
    \E win_rate \in WinRates, win_loss_ratio \in Ratios, e \in Exposures :
        KellyCalculateKelly(win_rate, win_loss_ratio, e)

SpecKelly == InitKelly /\ [][NextKelly]_vars

-----------------------------------------------------------------------------
(* kalshi_client.py: the open markets of the exchange, loaded into the index *)

\* series_configs of get_all_markets, the entries of one sport in their order
series_configs == <<"KXNBAGAME", "KXNBASPREAD", "KXNBATOTAL">>

\* the market type a series lists
SeriesType(series_ticker) ==
    IF series_ticker = "KXNBAGAME" THEN "winner"
    ELSE IF series_ticker = "KXNBASPREAD" THEN "spread" ELSE "total"

\* a market of the exchange: event_teams is the team part of its event_ticker,
\* in the order of the ticker
ExchangeMarket(ticker, series_ticker, event_teams, mentions, over, line) ==
    [ticker |-> ticker, series_ticker |-> series_ticker, event_teams |-> event_teams,
     mentions |-> mentions, over |-> over, line |-> line]

\* _extract_game_key: the two team codes of the event ticker, sorted
ExtractGameKey(event_teams) == BuildGameKey(event_teams[1], event_teams[2])

\* the open markets the exchange can list, in the order it returns them
Listing ==
    << ExchangeMarket("KXNBAGAME-26FEB01BOSNYK-BOS", "KXNBAGAME", <<"bos", "nyk">>,
                      {"bos", "nyk"}, FALSE, NoLine),
       ExchangeMarket("KXNBAGAME-26FEB01LALDEN-LAL", "KXNBAGAME", <<"lal", "den">>,
                      {"den", "lal"}, FALSE, NoLine),
       ExchangeMarket("KXNBASPREAD-26FEB01BOSNYK-NYK5", "KXNBASPREAD", <<"bos", "nyk">>,
                      {"nyk"}, FALSE, {550}),
       ExchangeMarket("KXNBASPREAD-26FEB01BOSNYK-NYK6", "KXNBASPREAD", <<"bos", "nyk">>,
                      {"nyk"}, FALSE, {650}),
       ExchangeMarket("KXNBASPREAD-26FEB01LALDEN-LAL3", "KXNBASPREAD", <<"lal", "den">>,
                      {"lal"}, FALSE, {350}),
       ExchangeMarket("KXNBATOTAL-26FEB01BOSNYK-211", "KXNBATOTAL", <<"bos", "nyk">>,
                      {}, TRUE, {21150}),
       ExchangeMarket("KXNBATOTAL-26FEB01LALDEN-220", "KXNBATOTAL", <<"lal", "den">>,
                      {}, TRUE, {22050}) >>

\* the game keys of the listing, in the order the dict first sees them
ListedGames == << <<"bos", "nyk">>, <<"den", "lal">> >>

\* get_markets: games[f"{sport}:{game_key}"], the open markets of one series per
\* tagged key (an empty list = no such key)
GetMarkets(open, series_ticker) ==
    [g \in GameKeys |->
        SelectSeq(Listing, LAMBDA m : /\ m.ticker \in open
                                      /\ m.series_ticker = series_ticker
                                      /\ ExtractGameKey(m.event_teams) = g)]

\* all_games.update(markets): the keys of markets replace those of all_games
Update(all_games, markets) ==
    [g \in GameKeys |-> IF markets[g] # <<>> THEN markets[g] ELSE all_games[g]]

RECURSIVE GetAllMarketsFrom(_, _, _)
GetAllMarketsFrom(open, all_games, k) ==
    IF k > Len(series_configs) THEN all_games
    ELSE GetAllMarketsFrom(open, Update(all_games, GetMarkets(open, series_configs[k])),
                           k + 1)

\* get_all_markets
GetAllMarkets(open) == GetAllMarketsFrom(open, [g \in GameKeys |-> <<>>], 1)

\* _parse_tagged_key of a key "sport:game_key": two parts, filed as 'winner'
ParseTaggedKey(g) == [sport |-> "nba", market_type |-> "winner", game_key |-> g]

RECURSIVE BuildIndexFrom(_, _)
BuildIndexFrom(all_games, k) ==
    IF k > Len(ListedGames) THEN <<>>
    ELSE LET key == ParseTaggedKey(ListedGames[k])
             markets == all_games[ListedGames[k]]
         IN  [i \in DOMAIN markets |->
                 KalshiMarket(markets[i].ticker, key.sport, key.market_type,
                              key.game_key, markets[i].mentions, markets[i].over,
                              markets[i].line)]
             \o BuildIndexFrom(all_games, k + 1)

\* _build_index over the dict of get_all_markets
BuildIndex(all_games) == BuildIndexFrom(all_games, 1)

InitCatalog ==
    /\ script = "catalog"
    /\ ex = Obj(NewExecutor(TRUE, <<>>))
    /\ pm = NewPMExecutor(TRUE)
    /\ twin = NewExecutor(TRUE, <<>>)
    /\ InitCommon

\* _load_markets, while the exchange lists the markets of open: a listing with
\* no market leaves the matcher as it is
LoadMarkets(open) ==
    /\ script = "catalog"
    /\ open # {}
    /\ kalshi_markets' = BuildIndex(GetAllMarkets(open))
    /\ catalog' = Loaded(open)
    /\ UNCHANGED <<core, rm, risk_result, last_find, sizing, last_order, last_parse,
                   tasks, last_kelly, last_trades, surfaced, fetching, feed, last_batch, last_copy>>

NextCatalog ==
    \E open \in SUBSET {Listing[i].ticker : i \in DOMAIN Listing} : LoadMarkets(open)

SpecCatalog == InitCatalog /\ [][NextCatalog]_vars

-----------------------------------------------------------------------------
(* TradeMonitor.is_new_trade called on the activity of the wallets *)

\* the most True answers counted per wallet and hash
MaxSurfaced == 2

InitMonitor ==
    /\ script = "monitor"
    /\ ex = Obj(NewExecutor(TRUE, <<>>))
    /\ pm = NewPMExecutor(TRUE)
    /\ twin = NewExecutor(TRUE, <<>>)
    /\ InitCommon

\* monitor.is_new_trade(wallet, {"transactionHash": tx_hash})
MonitorIsNewTrade(wallet, tx_hash) ==
    LET r == IsNewTrade(last_trades[wallet], tx_hash) IN
    /\ script = "monitor"
    /\ surfaced[wallet][tx_hash] < MaxSurfaced
    /\ last_trades' = [last_trades EXCEPT ![wallet] = r.entry]
    /\ surfaced' = [surfaced EXCEPT ![wallet][tx_hash] = @ + (IF r.new THEN 1 ELSE 0)]
    /\ UNCHANGED <<core, aux, sizing, last_order, last_parse, tasks, last_kelly, catalog,
                   fetching, feed, last_batch, last_copy>>

NextMonitor == \E wallet \in Wallets, tx_hash \in TxHashes : MonitorIsNewTrade(wallet, tx_hash)

SpecMonitor == InitMonitor /\ [][NextMonitor]_vars

-----------------------------------------------------------------------------
(* run_pm_copy.py main(): the fetches of the scans and their error handling *)

FETCH_INTERVAL == 15
max_errors == 5
\* the cap of the backoff delay, seconds
MaxDelay == 300

\* the traders of get_active_traders()
Traders == <<"0xabc123", "0xdef456">>

\* the longest run of failed fetches followed
MaxStreak == 7

RECURSIVE Pow2(_)
Pow2(n) == IF n <= 0 THEN 1 ELSE 2 * Pow2(n - 1)

\* delay = min(base_delay * (2 ** (error_count - max_errors)), 300)
BackoffDelay(error_count) == Min(FETCH_INTERVAL * Pow2(error_count - max_errors), MaxDelay)

\* the body of the for loop over the traders, for one trader. raised: the fetch
\* raised (fetch_whale_trades lets an ImportError through, and tagging a feed
\* record that is not a dict raises); a request that failed or was refused is
\* answered [] by fetch_whale_trades and is not raised
FetchOne(f, raised) ==
    IF ~raised THEN [f EXCEPT !.waits = <<>>]
    ELSE IF f.error_count + 1 >= max_errors
         THEN [error_count |-> 0, fetch_success |-> FALSE,
               waits |-> Append(f.waits, BackoffDelay(f.error_count + 1))]
         ELSE [error_count |-> f.error_count + 1, fetch_success |-> FALSE,
               waits |-> Append(f.waits, 0)]

RECURSIVE FetchAll(_, _, _)
FetchAll(f, raises, k) ==
    IF k > Len(raises) THEN f
    ELSE FetchAll(FetchOne(f, raises[k]), raises, k + 1)

InitFetch ==
    /\ script = "fetch"
    /\ ex = Obj(NewExecutor(TRUE, <<>>))
    /\ pm = NewPMExecutor(TRUE)
    /\ twin = NewExecutor(TRUE, <<>>)
    /\ InitCommon

\* one scan of the while loop with no new trade: the fetches, the reset of the
\* error count, and the sleep of FETCH_INTERVAL * jitter (jitter in percent)
PMScan(raises, jitter) ==
    LET r == FetchAll([error_count |-> fetching.error_count, fetch_success |-> TRUE,
                       waits |-> fetching.waits], raises, 1)
    IN /\ script = "fetch"
       /\ Len(r.waits) <= MaxStreak
       /\ fetching' = [error_count |-> IF r.fetch_success THEN Max(0, r.error_count - 1)
                                       ELSE r.error_count,
                       waits |-> r.waits,
                       slept |-> (FETCH_INTERVAL * jitter) \div 100]
       /\ UNCHANGED <<core, aux, sizing, last_order, last_parse, tasks, last_kelly,
                      catalog, last_trades, surfaced, feed, last_batch, last_copy>>

NextFetch ==
    \E raises \in [DOMAIN Traders -> BOOLEAN], jitter \in {60, 100, 140} :
        PMScan(raises, jitter)

SpecFetch == InitFetch /\ [][NextFetch]_vars

-----------------------------------------------------------------------------
(* The scans of run_pm_copy with the feed and the filter observed by hash *)

\* feed after a scan: every trade of all_trades was returned, those of
\* new_trades were surfaced (0, 1, many times)
RECURSIVE Surface(_, _, _)
Surface(f, new_trades, n) ==
    IF n = 0 THEN f
    ELSE [Surface(f, new_trades, n - 1)
             EXCEPT ![new_trades[n].transactionHash].new = Min(@ + 1, 2)]

Observe(f, all_trades, new_trades) ==
    Surface([h \in DOMAIN f |->
                [f[h] EXCEPT !.fed = @ \/ \E i \in DOMAIN all_trades :
                                             all_trades[i].transactionHash = h]],
            new_trades, Len(new_trades))

InitFeed ==
    /\ script = "feed"
    /\ \E dry_run \in BOOLEAN :
          /\ ex = Obj(NewExecutor(dry_run, <<>>))
          /\ pm = NewPMExecutor(dry_run)
    /\ twin = NewExecutor(TRUE, <<>>)
    /\ InitCommon

\* one cycle of "while True" in run_pm_copy.main
FeedPMPoll(all_trades, accepts) ==
    /\ script = "feed"
    /\ PMScanTrades(all_trades, accepts)
    /\ feed' = Observe(feed, all_trades,
                       FilterNew(all_trades, seen_trades, Len(all_trades)).new_trades)
    /\ UNCHANGED <<sizing, last_order, last_parse, tasks, last_kelly, catalog,
                   last_trades, surfaced, fetching, last_batch, last_copy>>

NextFeed ==
    \E all_trades \in Batches(LoopTrades) : \E accepts \in Accepts(all_trades) :
        FeedPMPoll(all_trades, accepts)

SpecFeed == InitFeed /\ [][NextFeed]_vars

-----------------------------------------------------------------------------
(* process_whale_trades called with batches of whale trades *)

\* the longest batch handed to process_whale_trades
MaxWhaleBatch == 2

\* the whale trades of the batches: two of one market, one of another
WhaleTrades == {t \in RawTrades : t.transactionHash \in {"h1", "h2", "h4"}}

WhaleBatches == UNION { [1..n -> WhaleTrades] : n \in 1..MaxWhaleBatch }

InitBatch ==
    /\ script = "batch"
    /\ \E dry_run \in BOOLEAN :
          /\ ex = Obj(NewExecutor(dry_run, <<>>))
          /\ pm = NewPMExecutor(dry_run)
    /\ twin = NewExecutor(TRUE, <<>>)
    /\ InitCommon

\* executor.process_whale_trades(whale_trades)
BatchProcessWhaleTrades(whale_trades, accepts) ==
    /\ script = "batch"
    /\ LET r == ProcessWhaleTrades(Mach(ex, trade_log), whale_trades, accepts, now)
       IN /\ Len(r.m.log) <= MaxLog
          /\ ex' = Obj(r.m)
          /\ trade_log' = r.m.log
          /\ filled' = Fill(filled, r.results, accepts, Len(r.results))
          /\ last_batch' = [called |-> TRUE, m |-> Mach(ex, trade_log),
                            whale_trades |-> whale_trades, accepts |-> accepts,
                            results |-> r.results]
    /\ UNCHANGED aux
    /\ UNCHANGED <<script, pc, seen_trades, now, pm, twin, handed, refed, failed,
                   execEver>>
    /\ UNCHANGED <<sizing, last_order, last_parse, tasks, last_kelly, catalog,
                   last_trades, surfaced, fetching, feed, last_copy>>

NextBatch ==
    \E whale_trades \in WhaleBatches : \E accepts \in Accepts(whale_trades) :
        BatchProcessWhaleTrades(whale_trades, accepts)

SpecBatch == InitBatch /\ [][NextBatch]_vars

-----------------------------------------------------------------------------
(* A live PolymarketCopyExecutor whose execute_copy_trade calls are awaited  *)
(* one after the other                                                       *)

\* the whale trades copied: of 5 (too small to copy), 400 and 500 dollars
SeqTrades ==
    { Raw("h1", "c1", token, SlugBosNyk, WinnerTitle, "yes", size, 0) :
        token \in {"tk1", "tk2", "tk3", ""}, size \in {5, 400, 500} }

InitSeq ==
    /\ script = "sequential"
    /\ ex = Obj(NewExecutor(TRUE, <<>>))
    /\ pm = NewPMExecutor(FALSE)
    /\ twin = NewExecutor(TRUE, <<>>)
    /\ InitCommon

\* result = await executor.execute_copy_trade(trade)
SeqExecuteCopyTrade(t, accepted) ==
    /\ script = "sequential"
    /\ LET r == PMExecuteCopyTrade(pm, t, accepted)
       IN /\ pm' = r.p
          /\ last_copy' = [called |-> TRUE, p |-> pm, t |-> t, result |-> r.result]
    /\ UNCHANGED aux
    /\ UNCHANGED <<script, pc, seen_trades, ex, trade_log, now, twin, handed, refed,
                   failed, execEver, filled>>
    /\ UNCHANGED <<sizing, last_order, last_parse, tasks, last_kelly, catalog,
                   last_trades, surfaced, fetching, feed, last_batch>>

NextSeq == \E t \in SeqTrades, accepted \in BOOLEAN : SeqExecuteCopyTrade(t, accepted)

SpecSeq == InitSeq /\ [][NextSeq]_vars

-----------------------------------------------------------------------------
(* Properties *)

BosNyk == <<"bos", "nyk">>
DenLal == <<"den", "lal">>

\* the two ledger maps of an executor
Ledger(m) == [positions_by_market |-> m.positions_by_market,
              positions_by_side |-> m.positions_by_side]

\* C1: in one run of a copy loop, whatever the feed returns and however often
\* it returns the same trade, each trade id is handed to the executor at most
\* once.
C1_HandedAtMostOnce == \A id \in TradeIds : handed[id] <= 1

\* C1 witness: a trade id was handed to the executor once, the feed has
\* returned it again in the same run, and the loop is still polling.
C1_Witness ==
    /\ pc = "polling"
    /\ \E id \in refed : handed[id] = 1

\* C2: one raw trade submitted twice to process_whale_trades mutates the
\* ledger exactly once (the second submission is a no-op): no raw trade is
\* executed twice by one executor.
C2_OneMutationPerRawTrade ==
    script = "modes" => \A h \in DOMAIN execEver : execEver[h] <= 1

\* C3: a trade whose order the exchange client refused is not marked
\* processed, so that the next poll cycle attempts it again.
C3_FailedOrderNotMarked == pc = "polling" => failed \cap seen_trades = {}

\* C4: in live mode the ledger and the trade log change only with an order
\* the exchange accepted: the log holds one record per accepted order, every
\* side holds exactly the accepted amounts, every market the sum of its two
\* sides; a refused order and a skipped trade leave all three unchanged.
C4_LedgerFollowsAcceptance ==
    (script = "api" /\ ~ex.dry_run) =>
        /\ Len(trade_log) = filled.orders
        /\ ex.positions_by_side = filled.by_side
        /\ \A g \in GameKeys :
              ex.positions_by_market[g] =
                  filled.by_side[<<g, "yes">>] + filled.by_side[<<g, "no">>]

\* C4 witness: a live executor after one accepted order on each side of one
\* game.
C4_Witness ==
    /\ script = "api"
    /\ ~ex.dry_run
    /\ filled.orders = 2
    /\ filled.by_side[<<BosNyk, "yes">>] > 0
    /\ filled.by_side[<<BosNyk, "no">>] > 0

\* C5: given the same calls, with every order accepted, the dry-run executor
\* and the live executor hold the same exposure per market and per side and
\* the same trade log.
C5_SameLedgerInBothModes ==
    script = "modes" =>
        /\ Ledger(twin) = Ledger(ex)
        /\ twin.log = trade_log

\* C6: a trade executed before a restart is not executed again after it, when
\* the feed returns it again.
C6_NotExecutedAgain ==
    (script = "run_kalshi_copy" /\ ~ex.dry_run) =>
        \A h \in DOMAIN execEver : execEver[h] <= 1

\* C7: in live mode, replaying the trade log (_load_positions) gives exactly
\* the positions_by_market and positions_by_side the executor holds in memory.
C7_ReplayEqualsLedger ==
    (script = "api" /\ ~ex.dry_run) =>
        /\ LoadPositions(trade_log).positions_by_market = ex.positions_by_market
        /\ LoadPositions(trade_log).positions_by_side = ex.positions_by_side

\* C7 witness: a live executor whose log holds two records, one per side of
\* one game.
C7_Witness ==
    /\ script = "api"
    /\ ~ex.dry_run
    /\ Len(trade_log) = 2
    /\ ex.positions_by_side[<<BosNyk, "yes">>] > 0
    /\ ex.positions_by_side[<<BosNyk, "no">>] > 0

\* C8: no side ever holds more than max_position_size_per_market, and an
\* execution whose proposed amount exceeds the remaining budget of its side
\* is cut to exactly that remaining budget (the side is then full).
C8_SideWithinCap ==
    script = "api" =>
        /\ \A k \in SideKeys :
              ex.positions_by_side[k] <= Cents(max_position_size_per_market)
        /\ \A t \in ApiTrades :
              LET pm_trade == ParsePmTrade(t)
                  match == FindMatch(pm_trade)
                  side_key == <<match.game_key, match.kalshi_side>>
                  proposed == CalculatePositionSize(ex.trade_history, pm_trade)
                  remaining == Cents(max_position_size_per_market)
                                   - ex.positions_by_side[side_key]
                  r == ExecuteCopyTrade(Mach(ex, trade_log), t, pm_trade, TRUE, now)
              IN (pm_trade.ok /\ match.ok /\ r.result.success) =>
                    /\ r.result.position_size = Min(proposed, remaining)
                    /\ r.m.positions_by_side[side_key] =
                           ex.positions_by_side[side_key] + Min(proposed, remaining)

\* C8 witness (Scenario D): with $20 committed on one side and the whale
\* window holding trades of 100 and 60, a trade of 60 is proposed at $15 and
\* was executed at $7, which filled the side to its cap of $27.
C8_Witness ==
    /\ script = "api"
    /\ ~ex.dry_run
    /\ Len(trade_log) = 2
    /\ trade_log[1].position_size = Cents(20)
    /\ trade_log[2].position_size = Cents(7)
    /\ ex.trade_history = <<100, 60>>
    /\ ex.positions_by_side[<<BosNyk, "yes">>] = Cents(max_position_size_per_market)

\* C9: the dollars committed over all markets never exceed
\* max_position_size_total.
C9_TotalWithinLimit ==
    script = "api" => CurrentTotal(ex) <= Cents(max_position_size_total)

\* C10: the dollars committed on one market, both sides together, never
\* exceed the per-market cap.
C10_MarketWithinCap ==
    script = "api" =>
        \A g \in GameKeys :
            ex.positions_by_market[g] <= Cents(max_position_size_per_market)

\* C11: in every RiskManager state reached through add_trader_exposure,
\* remove_trader_exposure, update_bankroll and reset, and for every proposed
\* size >= 0, check_position returns a final_position_size that is not above
\* the proposed size.
C11_FinalNotAboveProposed ==
    (script = "risk_api" /\ risk_result.called /\ risk_result.proposed_size >= 0)
        => risk_result.result.final_position_size <= risk_result.proposed_size

\* C12: an approved result of check_position always has a final_position_size
\* of at least the $1 floor; an amount below the floor (zero and negative
\* amounts included) is never approved.
C12_ApprovedAtLeastFloor ==
    (risk_result.called /\ risk_result.result.approved)
        => risk_result.result.final_position_size >= MinAfterReduction

\* C13: once the drawdown is above max_drawdown_percent, check_position
\* rejects (approved = false) whatever size is proposed.
C13_RejectedBeyondMaxDrawdown ==
    (script = "risk_api" /\ risk_result.called
        /\ rm.current_drawdown > Bp(max_drawdown_percent))
        => ~risk_result.result.approved

\* C14: the final_position_size returned by check_position is never above
\* max_trade_percent percent of the current bankroll, and suggested_multiplier
\* is never above 1.
C14_FinalWithinPerTradeCap ==
    (script = "risk_api" /\ risk_result.called)
        => /\ risk_result.result.final_position_size
                  <= SizeOf(Bp(risk_max_trade_percent), rm.bankroll)
           /\ risk_result.result.suggested_multiplier <= 100

C16_LedgerNeverDecreases ==
    [][script = "api" =>
          /\ \A g \in GameKeys :
                /\ ex'.positions_by_market[g] >= 0
                /\ ex'.positions_by_market[g] >= ex.positions_by_market[g]
          /\ \A k \in SideKeys :
                /\ ex'.positions_by_side[k] >= 0
                /\ ex'.positions_by_side[k] >= ex.positions_by_side[k]]_vars

\* C17: no order is submitted to the exchange for a trade unless the
\* executor's RiskManager was asked (check_position) about that trade and
\* approved it.
C17_OrderOnlyAfterRiskApproval ==
    (script = "api" /\ filled.orders > 0)
        => (risk_result.called /\ risk_result.result.approved)

\* C18: find_match returns no match whenever the trade's sport is empty or
\* either of its two teams is missing, whatever the index holds.
C18_NoneWithoutSportOrTeam ==
    (last_find.called /\ (last_find.pm_trade.sport = ""
                       \/ last_find.pm_trade.teams[1] = ""
                       \/ last_find.pm_trade.teams[2] = ""))
        => ~last_find.match.ok

\* C19: when the trade is a winner trade with its sport and both teams, and
\* the exact (sport, game key) bucket holds a market of type winner,
\* find_match returns a match whose side is the side of the trade and whose
\* confidence is at least the base 1.0.
C19_WinnerInBucketMatches ==
    (/\ last_find.called
     /\ last_find.pm_trade.market_type = "winner"
     /\ last_find.pm_trade.sport # ""
     /\ last_find.pm_trade.teams[1] # ""
     /\ last_find.pm_trade.teams[2] # ""
     /\ \E i \in DOMAIN kalshi_markets :
           /\ kalshi_markets[i].sport = last_find.pm_trade.sport
           /\ kalshi_markets[i].game_key
                 = BuildGameKey(last_find.pm_trade.teams[1], last_find.pm_trade.teams[2])
           /\ kalshi_markets[i].market_type = "winner")
        => /\ last_find.match.ok
           /\ last_find.match.kalshi_side = last_find.pm_trade.side
           /\ last_find.match.confidence >= 10

\* the spread and total markets of the trade's bucket that pass every test of
\* _find_best_match other than the line test and whose line is within 1.00 of
\* the trade's line, both lines of a spread taken by absolute value
WithinTolerance(markets, pm_trade) ==
    {i \in DOMAIN markets :
        /\ markets[i].sport = pm_trade.sport
        /\ markets[i].game_key = BuildGameKey(pm_trade.teams[1], pm_trade.teams[2])
        /\ markets[i].market_type = pm_trade.market_type
        /\ pm_trade.market_type = "spread" => Mentioned(pm_trade.teams[1], markets[i])
        /\ DetermineKalshiSide(markets[i], pm_trade) # ""
        /\ \A kl \in markets[i].line, pl \in pm_trade.line :
              IF pm_trade.market_type = "spread"
              THEN Abs(Abs(kl) - Abs(pl)) <= 100
              ELSE Abs(kl - pl) <= 100}

\* C20: for a spread or total trade with a line, a market of the bucket is
\* accepted exactly when its line is within 1 of the trade's line (spread
\* lines compared by absolute value on both sides): find_match returns the
\* first such market, and no match when there is none.
C20_AcceptedIffWithinOne ==
    (/\ last_find.called
     /\ last_find.pm_trade.sport # ""
     /\ last_find.pm_trade.market_type \in {"spread", "total"}
     /\ last_find.pm_trade.line # NoLine)
        => LET within == WithinTolerance(kalshi_markets, last_find.pm_trade)
           IN IF within = {} THEN ~last_find.match.ok
              ELSE /\ last_find.match.ok
                   /\ last_find.match.kalshi_market_id
                         = kalshi_markets[CHOOSE i \in within :
                                             \A j \in within : i <= j].id

\* the markets of the trade's bucket that have the trade's type, name the bet
\* team of a spread and pass the line test of _find_best_match
Candidates(markets, pm_trade) ==
    {i \in DOMAIN markets :
        /\ markets[i].sport = pm_trade.sport
        /\ markets[i].game_key = BuildGameKey(pm_trade.teams[1], pm_trade.teams[2])
        /\ markets[i].market_type = pm_trade.market_type
        /\ pm_trade.market_type = "spread" => Mentioned(pm_trade.teams[1], markets[i])
        /\ (pm_trade.market_type \in {"spread", "total"}
             /\ markets[i].line # NoLine /\ pm_trade.line # NoLine)
            => \A kl \in markets[i].line, pl \in pm_trade.line :
                  Abs(kl - (IF pm_trade.market_type = "spread" THEN Abs(pl) ELSE pl)) <= 100}

\* C21: a winner or spread match has the side of the trade; a total trade
\* with a total market in its bucket is matched to one of them with its own
\* side when that market's yes is the over, and with the inverted side when
\* it is not.
C21_DestinationSide ==
    (last_find.called /\ last_find.pm_trade.sport # "")
        => IF last_find.pm_trade.market_type = "total"
           THEN Candidates(kalshi_markets, last_find.pm_trade) # {}
                   => /\ last_find.match.ok
                      /\ \E i \in Candidates(kalshi_markets, last_find.pm_trade) :
                            /\ kalshi_markets[i].id = last_find.match.kalshi_market_id
                            /\ last_find.match.kalshi_side
                                  = IF kalshi_markets[i].over
                                    THEN last_find.pm_trade.side
                                    ELSE IF last_find.pm_trade.side = "yes"
                                         THEN "no" ELSE "yes"
           ELSE last_find.match.ok
                   => last_find.match.kalshi_side = last_find.pm_trade.side

\* the markets of the trade's bucket that _find_best_match does not skip
Kept(markets, pm_trade) ==
    LET bucket == Bucket(markets, pm_trade.sport,
                         BuildGameKey(pm_trade.teams[1], pm_trade.teams[2]))
    IN [bucket |-> bucket,
        good |-> {i \in DOMAIN bucket : Qualifies(bucket[i], pm_trade)}]

C23_ExecutedWithinFloorAndCap ==
    script = "api" =>
        \A i \in DOMAIN trade_log :
            /\ trade_log[i].position_size >= Cents(min_trade_size)
            /\ trade_log[i].position_size <= Cents(max_single_trade_size)

\* C24: in every sizing strategy a size that is below the minimum after the
\* cap is not returned as a size to trade: it is never raised to the minimum.
C24_BelowFloorNotRoundedUp ==
    (last_size.called /\ last_size.result.capped < MinCopy)
        => last_size.result.our_copy < MinCopy

\* C25: after any add_trades calls, whatever the window_size, the window
\* holds at most window_size entries, and they are the sizes added last, in
\* the order they were added.
C25_WindowBounded ==
    script = "sizing" =>
        /\ Len(analyzer.trade_history) <= analyzer.window_size
        /\ \A i \in DOMAIN analyzer.trade_history :
              analyzer.trade_history[i]
                  = analyzer.added[Len(analyzer.added) - Len(analyzer.trade_history) + i]
        /\ Len(analyzer.trade_history) = Min(analyzer.window_size, Len(analyzer.added))

\* C26: before caps the proposed size is bankroll x 2% x (bet / average), in
\* WhaleScaler and in the executor's calculate_position_size: $8.66 for a bet
\* of $100, an average of $100 and a bankroll of $433.
C26_TwoPercentPerAverage ==
    /\ (last_size.called /\ last_size.strategy = "WhaleScaler")
          => LET proposed == Round(scaler.our_bankroll * 2 * last_size.trader_bet,
                                   scaler.trader_avg_bet)
             IN /\ proposed <= MaxPosition(scaler.our_bankroll)
                      => last_size.result.capped = proposed
                /\ (scaler = ScalerConfig(433, 100) /\ last_size.trader_bet = 100)
                      => last_size.result.capped = 866
    /\ (last_size.called /\ last_size.strategy = "calculate_position_size"
          /\ SumSeq(PositiveSizes(analyzer.trade_history)) > 0)
          => LET sizes == PositiveSizes(analyzer.trade_history)
                 proposed == (Cents(bankroll) * 2 * last_size.trader_bet * Len(sizes))
                                 \div (100 * SumSeq(sizes))
             IN proposed <= (Cents(bankroll) * 25) \div 100
                   => last_size.result.capped = proposed

\* C27: after a cycle that surfaced trades, whether they were malformed,
\* skipped, refused or executed, the poll loop is still running and goes on
\* to the next cycle.
C27_PollLoopGoesOn ==
    (script \in {"run_kalshi_copy", "run_pm_copy"} /\ seen_trades # {})
        => pc = "polling"

\* C28: when the exchange did not accept the order of the callback (it
\* answered with an error, or placing the order failed), the ExecutionResult
\* is not a success and no trader exposure is added for the trade.
C28_SuccessOnlyWhenAccepted ==
    (last_order.called /\ last_order.outcome # "accepted")
        => (~last_order.result.success /\ ~last_order.exposure_added)

\* C30: the size of a parsed trade is the first positive value among size,
\* usdcSize and amount, and the parser rejects a trade (with a token id) only
\* when none of the three is positive.
C30_FirstPositiveSize ==
    (last_parse.called /\ last_parse.trade_data.conditionId # "") =>
        LET t == last_parse.trade_data
            fields == <<t.size, t.usdcSize, t.amount>>
            positive == {i \in 1..3 : fields[i] > 0}
        IN IF positive = {} THEN ~last_parse.result.ok
           ELSE /\ last_parse.result.ok
                /\ last_parse.result.size
                      = fields[CHOOSE i \in positive : \A j \in positive : i <= j]

\* C29: when signals are processed concurrently their check-and-commit
\* regions do not interleave: a coroutine commits only exposure that still
\* fits, so the committed exposure never exceeds the per-market cap or the
\* total cap.
C29_CommittedWithinCaps ==
    script = "gather" =>
        /\ \A k \in TokenIds : pm.positions[k] <= Cents(pm_max_position_size) * 2
        /\ pm.total_exposure <= Cents(pm_max_total_exposure)

C32_EveryListedMarketIndexed ==
    catalog.loaded =>
        \A k \in DOMAIN Listing :
            Listing[k].ticker \in catalog.open =>
                \E i \in DOMAIN kalshi_markets :
                    /\ kalshi_markets[i].id = Listing[k].ticker
                    /\ kalshi_markets[i].sport = "nba"
                    /\ kalshi_markets[i].game_key = ExtractGameKey(Listing[k].event_teams)
                    /\ kalshi_markets[i].market_type = SeriesType(Listing[k].series_ticker)

\* C33: is_new_trade answers True at most once for a wallet and a transaction
\* hash, whatever other trades of that wallet were seen in between
C33_NewAtMostOnce ==
    \A w \in Wallets : \A h \in TxHashes : surfaced[w][h] <= 1

\* C34: process_whale_trades skips a trade when a trade on the same game was
\* logged within the last cooldown_minutes: the log of the Kalshi poll loop
\* never holds two records of one game less than cooldown_minutes apart
C34_CooldownSkips ==
    script = "run_kalshi_copy" =>
        \A i \in DOMAIN trade_log : \A j \in DOMAIN trade_log :
            (i < j /\ trade_log[i].game_key = trade_log[j].game_key)
                => trade_log[j].timestamp - trade_log[i].timestamp >= cooldown_minutes

\* C35: fetch failures are answered by a bounded exponential backoff: within a
\* run of consecutive failed fetches the wait of the error handler doubles from
\* one failure to the next, up to 300 seconds
C35_WaitDoubles ==
    \A k \in 2..Len(fetching.waits) :
        fetching.waits[k] = Min(2 * fetching.waits[k - 1], MaxDelay)

\* C36: every raw trade with a transaction hash that the feed returned was
\* surfaced as new exactly once, also when an earlier trade carried the same
\* conditionId
C36_EveryHashSurfacedOnce ==
    \A h \in DOMAIN feed : (h # "" /\ feed[h].fed) => feed[h].new = 1

\* the for loop of process_whale_trades over trades[1..n] when every trade is
\* sized on the whale window as it stands before the trade, and enters the
\* window afterwards
RECURSIVE SizedOnEarlier(_, _, _, _, _)
SizedOnEarlier(m, trades, accepts, clock, n) ==
    IF n = 0 THEN [m |-> m, results |-> <<>>]
    ELSE LET before == SizedOnEarlier(m, trades, accepts, clock, n - 1)
             step == ProcessOne(before.m, trades[n], accepts[n], clock)
         IN [m |-> [step.m EXCEPT !.trade_history = AddTrades(@, <<trades[n]>>)],
             results |-> Append(before.results, step.result)]

\* C37: the rolling average a trade is sized against holds only the trades
\* observed before it: the results of a process_whale_trades batch are those of
\* sizing each trade before it enters the window, whatever its own size and the
\* trades that follow it in the batch
C37_SizedOnEarlierTrades ==
    last_batch.called =>
        last_batch.results =
            SizedOnEarlier(last_batch.m, last_batch.whale_trades, last_batch.accepts,
                           now, Len(last_batch.whale_trades)).results

\* the sum of positions over the tokens of a set
RECURSIVE SumPositions(_, _)
SumPositions(positions, tokens) ==
    IF tokens = {} THEN 0
    ELSE LET k == CHOOSE x \in tokens : TRUE
         IN positions[k] + SumPositions(positions, tokens \ {k})

====
